---- MODULE Spec2Model ----
(***************************************************************************)
(* A model of the file catalog of MessyFilesOrganizingSummarizingSystem:   *)
(* the scanner (backend/app/services/scanner.py), the catalog tables it    *)
(* writes (backend/app/models), the rule actions that change asset rows    *)
(* (backend/app/services/rules_engine.py) and the SavedView query compiler *)
(* (backend/app/services/savedview_service.py).                            *)
(*                                                                         *)
(* A file name is a sequence of tokens in which "." is a token of its own  *)
(* (<<"a", ".", "txt">> is a.txt); a path is a sequence of names, as       *)
(* pathlib's Path.parts.  A hash is modelled as the tuple of what the      *)
(* hash function reads, so two hashes are equal exactly when the bytes     *)
(* read are equal.                                                         *)
(***************************************************************************)
EXTENDS Integers, Sequences, FiniteSets, TLC

VARIABLES fs, ops, blobs, assets, now, scanning, sc, session, sql,
          saved_views, view_session, reply, tags, file_tags, pages, rules_session,
          jobs

\* the state of the services other than the scanner
service_vars ==
    <<saved_views, view_session, reply, tags, file_tags, pages, rules_session, jobs>>

vars == <<fs, ops, blobs, assets, now, scanning, sc, session, sql, service_vars>>

(***************************************************************************)
(* Bounds of the model.                                                    *)
(***************************************************************************)
MaxScans == 2
MaxFsOps == 1
MaxLinkDepth == 2

Scanners == {"s1", "s2"}

(***************************************************************************)
(* Names and deny-lists (FileScanner.__init__).                            *)
(***************************************************************************)
blacklist_dirs ==
    { <<"System Volume Information">>, <<"$Recycle", ".", "Bin">>,
      <<"Windows">>, <<"Program Files">>, <<"Program Files (x86)">>,
      <<"AppData">>, <<"Application Data">>, <<"Local Settings">>,
      <<"Temporary Internet Files">>, <<"Temp">>, <<".", "git">>,
      <<".", "svn">>, <<"node_modules">>, <<"__pycache__">>,
      <<".", "cache">> }

blacklist_extensions ==
    { <<".", "tmp">>, <<".", "temp">>, <<".", "log">>, <<".", "cache">>,
      <<".", "bak">>, <<".", "swp">>, <<".", "lock">>, <<".", "pid">>,
      <<".", "sock">>, <<".", "fifo">> }

\* str.lower() on the tokens the model uses
lower(tok) ==
    CASE tok = "LOG" -> "log"
      [] tok = "Temp" -> "temp"
      [] tok = "B" -> "b"
      [] OTHER -> tok

\* the index of the last "." token of a name, 0 when there is none
RECURSIVE rfind_dot(_, _)
rfind_dot(name, i) ==
    IF i = 0 THEN 0
    ELSE IF name[i] = "." THEN i ELSE rfind_dot(name, i - 1)

\* PurePath.suffix: the part from the last dot on, unless the dot is the
\* first or the last character of the name
suffix(name) ==
    LET i == rfind_dot(name, Len(name))
    IN IF 1 < i /\ i < Len(name) THEN SubSeq(name, i, Len(name)) ELSE << >>

suffix_lower(name) == [k \in 1..Len(suffix(name)) |-> lower(suffix(name)[k])]

\* FileScanner._is_blacklisted
_is_blacklisted(path) ==
    \/ \E k \in 1..Len(path) : path[k] \in blacklist_dirs
    \/ Len(path) > 0 /\ suffix_lower(path[Len(path)]) \in blacklist_extensions

(***************************************************************************)
(* File contents and the two hashes.  Sizes are in KiB; head and tail are  *)
(* the first and the last 64 KiB, mid is everything in between.            *)
(***************************************************************************)
FastWholeLimit == 1024
FastTailLimit == 128

cA == [size |-> 2048, head |-> 1, mid |-> 1, tail |-> 1]
cB == [size |-> 2048, head |-> 1, mid |-> 2, tail |-> 1]
cC == [size |-> 1, head |-> 2, mid |-> 0, tail |-> 0]
Contents == {cA, cB, cC}
NoContent == [size |-> 0, head |-> 0, mid |-> 0, tail |-> 0]

NoHash == << >>

\* FileScanner._calculate_fast_hash on readable bytes
_calculate_fast_hash(c) ==
    IF c.size > FastWholeLimit
    THEN IF c.size > FastTailLimit THEN <<"blake3", c.head, c.tail>>
                                   ELSE <<"blake3", c.head>>
    ELSE <<"blake3", c.head, c.mid, c.tail>>

\* FileScanner._calculate_content_hash on readable bytes
_calculate_content_hash(c) == <<"sha256", c.size, c.head, c.mid, c.tail>>

(***************************************************************************)
(* The file system: a function from physical paths to nodes.               *)
(***************************************************************************)
Node(kind, content, target, readable) ==
    [kind |-> kind, content |-> content, target |-> target, readable |-> readable]
Dir == Node("dir", NoContent, << >>, TRUE)
File(c) == Node("file", c, << >>, TRUE)
Unreadable(c) == Node("file", c, << >>, FALSE)
Link(t) == Node("link", NoContent, t, TRUE)
Absent == Node("none", NoContent, << >>, TRUE)

ENOENT == << <<"?">> >>

\* path resolution: follows symbolic links, gives up after MaxLinkDepth of
\* them (ELOOP)
RECURSIVE resolve_from(_, _, _, _)
resolve_from(f, cur, rest, links) ==
    IF rest = << >> THEN cur
    ELSE LET cand == Append(cur, Head(rest))
         IN IF cand \notin DOMAIN f \/ f[cand].kind = "none" THEN ENOENT
            ELSE IF f[cand].kind = "link"
                 THEN IF links + 1 > MaxLinkDepth THEN ENOENT
                      ELSE resolve_from(f, f[cand].target, Tail(rest), links + 1)
                 ELSE resolve_from(f, cand, Tail(rest), links)

resolve(f, path) == resolve_from(f, << >>, path, 0)

exists(f, path) == resolve(f, path) # ENOENT
is_file(f, path) == exists(f, path) /\ f[resolve(f, path)].kind = "file"
is_dir(f, path) == exists(f, path) /\ f[resolve(f, path)].kind = "dir"

\* the order in which a directory lists its entries
NameOrder ==
    << <<"a", ".", "txt">>, <<"B", ".", "LOG">>, <<"Temp">>,
       <<"lnk", ".", "txt">>, <<"node_modules">>, <<"x", ".", "txt">>,
       <<"old", ".", "bak">>, <<"d", ".", "txt">>,
       <<"sub">>, <<"c", ".", "txt">>, <<"loop">>,
       <<"f1", ".", "txt">>, <<"f2", ".", "txt">>, <<"f3", ".", "txt">> >>

\* Path.iterdir: the names of the entries of a directory
iterdir(f, path) ==
    LET d == resolve(f, path)
        present(name) == Append(d, name) \in DOMAIN f
                         /\ f[Append(d, name)].kind # "none"
    IN SelectSeq(NameOrder, present)

(***************************************************************************)
(* The catalog tables.  blobs is keyed by content_hash; assets is the      *)
(* table in insertion order, a row's id being its position.                *)
(***************************************************************************)
Blob(h, fh, size) == [content_hash |-> h, fast_hash |-> fh, size |-> size]
Asset(h, path, t) ==
    [content_hash |-> h, full_path |-> path, last_seen |-> t, is_available |-> TRUE]

NoResult == [file_path |-> << >>, content_hash |-> NoHash, fast_hash |-> NoHash, size |-> 0]

\* FileScanner._process_file: the set of values it can return for a path
\* (NoResult is None); db is the blobs table the session reads
_process_file(f, db, path) ==
    IF _is_blacklisted(path) THEN {NoResult}
    ELSE IF ~exists(f, path) THEN {NoResult}
    ELSE LET n == f[resolve(f, path)]
             fast_hash == IF n.readable THEN _calculate_fast_hash(n.content) ELSE NoHash
             existing == {b \in db : b.fast_hash = fast_hash}
             made(h) == [file_path |-> path, content_hash |-> h,
                         fast_hash |-> fast_hash, size |-> n.content.size]
         IN IF fast_hash = NoHash THEN {NoResult}
            ELSE IF existing # {}
                 THEN {made(b.content_hash) : b \in existing}
                 ELSE {made(_calculate_content_hash(n.content))}

(***************************************************************************)
(* The scanner.  sc[s] is the frame of scan_path of scanner s, session[s]  *)
(* the pending state of its store session (self.db), which is created     *)
(* with autoflush=False: a query reads the committed tables only, and      *)
(* added or changed objects reach the store at commit.                     *)
(***************************************************************************)
\* Fields of a frame: pc is the place in scan_path ("idle" outside of it,
\* "walk" in _scan_directory, "save" and "save_asset" in the loop of
\* _save_scan_results, "commit" before db.commit), ret the last value
\* returned, overlapped whether another scanner was scanning during this
\* scan.  ops counts the file operations made so far, now the scans started
\* so far (the clock of the catalog).
NoRet == [success |-> FALSE, files_found |-> -1, files_saved |-> -1]
Raised == [success |-> FALSE, files_found |-> -2, files_saved |-> -2]

IdleFrame ==
    [pc |-> "idle", root |-> << >>, stack |-> << >>, results |-> << >>, i |-> 1,
     saved_count |-> 0, ret |-> NoRet, overlapped |-> FALSE]

EmptySession == [new_blobs |-> << >>, new_assets |-> << >>, dirty |-> {}]

\* the frames of _scan_directory that still have entries to visit
RECURSIVE unwind(_)
unwind(stack) ==
    IF stack = << >> THEN stack
    ELSE IF stack[Len(stack)].rest = << >>
         THEN unwind(SubSeq(stack, 1, Len(stack) - 1))
         ELSE stack

after_walk(stack, results) ==
    IF stack # << >> THEN "walk"
    ELSE IF results # << >> THEN "save" ELSE "commit"

keep(results, r) == IF r = NoResult THEN results ELSE Append(results, r)

Active(s) == sc[s].pc # "idle"

\* scan_path up to the first file-level unit
ScanStart(s, root) ==
    /\ sc[s].pc = "idle"
    /\ now < MaxScans
    /\ now' = now + 1
    /\ session' = [session EXCEPT ![s] = EmptySession]
    /\ IF ~exists(fs, root)
       THEN /\ sc' = [sc EXCEPT ![s] = [IdleFrame EXCEPT !.ret = Raised]]
            /\ UNCHANGED scanning
       ELSE /\ scanning' = [scanning EXCEPT ![s] = TRUE]
            /\ LET over == \E t \in Scanners \ {s} : Active(t)
                   mark(f) == [t \in Scanners |->
                                 IF t = s THEN f
                                 ELSE IF Active(t) THEN [sc[t] EXCEPT !.overlapped = TRUE]
                                 ELSE sc[t]]
               IN IF is_file(fs, root)
                  THEN \E r \in _process_file(fs, blobs, root) :
                         sc' = mark([IdleFrame EXCEPT
                                       !.root = root,
                                       !.results = keep(<< >>, r),
                                       !.pc = after_walk(<< >>, keep(<< >>, r)),
                                       !.overlapped = over])
                  ELSE LET stack == unwind(<<[dir |-> root, rest |-> iterdir(fs, root)]>>)
                       IN sc' = mark([IdleFrame EXCEPT
                                        !.root = root,
                                        !.stack = stack,
                                        !.pc = after_walk(stack, << >>),
                                        !.overlapped = over])
    /\ UNCHANGED <<fs, ops, blobs, assets, sql, service_vars>>

\* _scan_directory: one entry of the directory on top of the stack
WalkStep(s) ==
    /\ sc[s].pc = "walk"
    /\ LET stack == sc[s].stack
           top == stack[Len(stack)]
           item == Append(top.dir, Head(top.rest))
           rest == [stack EXCEPT ![Len(stack)].rest = Tail(top.rest)]
           go(st, res) == sc' = [sc EXCEPT ![s].stack = unwind(st),
                                           ![s].results = res,
                                           ![s].pc = after_walk(unwind(st), res)]
       IN IF is_file(fs, item)
          THEN \E r \in _process_file(fs, blobs, item) : go(rest, keep(sc[s].results, r))
          ELSE IF is_dir(fs, item) /\ ~_is_blacklisted(item)
               THEN go(Append(rest, [dir |-> item, rest |-> iterdir(fs, item)]),
                       sc[s].results)
               ELSE go(rest, sc[s].results)
    /\ UNCHANGED <<fs, ops, blobs, assets, now, scanning, session, sql, service_vars>>

\* the value scanner.py assigns to last_seen: time.time(), a float
time_time == [pytype |-> "float", t |-> now]

\* pending_blob with the test of the query result inverted
pending_blob_inverted(db, r) ==
    IF \E b \in db : b.content_hash = r.content_hash
    THEN <<Blob(r.content_hash, r.fast_hash, r.size)>>
    ELSE << >>

\* the Blob that _save_scan_results adds for a result (none when the query
\* finds one)
pending_blob(db, r) ==
    IF \E b \in db : b.content_hash = r.content_hash THEN << >>
    ELSE <<Blob(r.content_hash, r.fast_hash, r.size)>>

\* the ids of the rows the existing_asset query can return
existing_asset(tbl, r) ==
    {k \in 1..Len(tbl) : /\ tbl[k].content_hash = r.content_hash
                         /\ tbl[k].full_path = r.file_path}

\* _save_scan_results: the Blob query of one iteration of the loop over the
\* results, and the Blob added when it finds none
SaveBlobStep(s) ==
    /\ sc[s].pc = "save"
    /\ session' = [session EXCEPT
                     ![s].new_blobs = @ \o pending_blob(blobs, sc[s].results[sc[s].i])]
    /\ sc' = [sc EXCEPT ![s].pc = "save_asset"]
    /\ UNCHANGED <<fs, ops, blobs, assets, now, scanning, sql, service_vars>>

\* _save_scan_results: the Asset query of the same iteration, and the Asset
\* added or refreshed
SaveAssetStep(s) ==
    /\ sc[s].pc = "save_asset"
    /\ LET r == sc[s].results[sc[s].i]
           last == sc[s].i = Len(sc[s].results)
           found == existing_asset(assets, r)
       IN IF found = {}
          THEN /\ session' = [session EXCEPT ![s].new_assets = Append(@, r)]
               /\ sc' = [sc EXCEPT ![s].i = @ + 1,
                                   ![s].saved_count = @ + 1,
                                   ![s].pc = IF last THEN "commit" ELSE "save"]
          ELSE \E k \in found :
               /\ session' = [session EXCEPT
                                ![s].dirty = @ \cup {[id |-> k, value |-> time_time]}]
               /\ sc' = [sc EXCEPT ![s].i = @ + 1,
                                   ![s].pc = IF last THEN "commit" ELSE "save"]
    /\ UNCHANGED <<fs, ops, blobs, assets, now, scanning, sql, service_vars>>

\* the primary key of blobs: an INSERT of a content_hash that another
\* pending or stored row has raises IntegrityError
pk_conflict(db, new_blobs) ==
    \/ \E i, j \in 1..Len(new_blobs) :
          i # j /\ new_blobs[i].content_hash = new_blobs[j].content_hash
    \/ \E i \in 1..Len(new_blobs) :
          \E b \in db : b.content_hash = new_blobs[i].content_hash

\* the DateTime column last_seen binds datetime objects only; any other
\* Python value raises at flush
DateTime_bind_ok(v) == v.pytype = "datetime"

flush_ok(db, sess) ==
    /\ ~pk_conflict(db, sess.new_blobs)
    /\ \A d \in sess.dirty : DateTime_bind_ok(d.value)

inserted_assets(sess, t) ==
    [k \in 1..Len(sess.new_assets) |->
        Asset(sess.new_assets[k].content_hash, sess.new_assets[k].file_path, t)]

\* the rows the flush inserts for the pending Blobs: created_at is the
\* server default, the time of the INSERT
inserted_blobs(sess, t) ==
    {[content_hash |-> sess.new_blobs[k].content_hash,
      fast_hash |-> sess.new_blobs[k].fast_hash,
      size |-> sess.new_blobs[k].size,
      created_at |-> t] : k \in 1..Len(sess.new_blobs)}

updated_assets(tbl, sess) ==
    [k \in 1..Len(tbl) |->
        IF \E d \in sess.dirty : d.id = k
        THEN [tbl[k] EXCEPT !.last_seen = (CHOOSE d \in sess.dirty : d.id = k).value.t]
        ELSE tbl[k]]

\* the end of _save_scan_results (commit, or rollback when the flush
\* raises) and the return of scan_path
Commit(s) ==
    /\ sc[s].pc = "commit"
    /\ IF flush_ok(blobs, session[s])
       THEN /\ blobs' = blobs \cup inserted_blobs(session[s], now)
            /\ assets' = updated_assets(assets, session[s]) \o inserted_assets(session[s], now)
       ELSE UNCHANGED <<blobs, assets>>
    /\ session' = [session EXCEPT ![s] = EmptySession]
    /\ sc' = [sc EXCEPT ![s].pc = "idle",
                        ![s].ret = [success |-> TRUE,
                                    files_found |-> Len(sc[s].results),
                                    files_saved |-> sc[s].saved_count]]
    /\ scanning' = [scanning EXCEPT ![s] = FALSE]
    /\ UNCHANGED <<fs, ops, now, sql, service_vars>>

\* FileScanner.stop_scan
stop_scan(s) ==
    /\ scanning[s]
    /\ scanning' = [scanning EXCEPT ![s] = FALSE]
    /\ UNCHANGED <<fs, ops, blobs, assets, now, sc, session, sql, service_vars>>

(***************************************************************************)
(* Rule actions that change asset rows (RulesEngine, its own session,      *)
(* committed at once) and the environment writing files.                   *)
(***************************************************************************)
\* the ids of the rows the query by full_path can return
asset_at(tbl, path) == {k \in 1..Len(tbl) : tbl[k].full_path = path}

\* RulesEngine._move_file
_move_file(source_path, target_path) ==
    /\ ops < MaxFsOps
    /\ ops' = ops + 1
    /\ source_path # target_path
    /\ IF ~exists(fs, source_path)
       THEN UNCHANGED <<fs, assets>>
       ELSE /\ fs' = [fs EXCEPT ![target_path] = fs[source_path],
                                ![source_path] = Absent]
            /\ IF asset_at(assets, source_path) = {}
               THEN UNCHANGED assets
               ELSE \E k \in asset_at(assets, source_path) :
                      assets' = [assets EXCEPT ![k].full_path = target_path]
    /\ UNCHANGED <<blobs, now, scanning, sc, session, sql, service_vars>>

\* RulesEngine._delete_file
_delete_file(source_path) ==
    /\ ops < MaxFsOps
    /\ ops' = ops + 1
    /\ IF ~exists(fs, source_path)
       THEN UNCHANGED <<fs, assets>>
       ELSE /\ fs' = [fs EXCEPT ![source_path] = Absent]
            /\ IF asset_at(assets, source_path) = {}
               THEN UNCHANGED assets
               ELSE \E k \in asset_at(assets, source_path) :
                      assets' = [assets EXCEPT ![k].is_available = FALSE]
    /\ UNCHANGED <<blobs, now, scanning, sc, session, sql, service_vars>>

\* a program other than the catalog writes, replaces or removes a file
WriteFile(path, node) ==
    /\ ops < MaxFsOps
    /\ ops' = ops + 1
    /\ fs[path] # node
    /\ fs' = [fs EXCEPT ![path] = node]
    /\ UNCHANGED <<blobs, assets, now, scanning, sc, session, sql, service_vars>>

(***************************************************************************)
(* File systems of the model.                                              *)
(***************************************************************************)
data == <<"data">>
f1 == <<data, <<"f1", ".", "txt">> >>
f2 == <<data, <<"f2", ".", "txt">> >>
f3 == <<data, <<"f3", ".", "txt">> >>
FlatFiles == {f1, f2, f3}
FlatRoots == {<<data>>} \cup FlatFiles
FileStates == {Absent, Unreadable(cC)} \cup {File(c) : c \in Contents}

FlatFs(n1, n2, n3) == (<<data>> :> Dir) @@ (f1 :> n1) @@ (f2 :> n2) @@ (f3 :> n3)

\* the directories the scans start from: two files of the same bytes and
\* a third one, two large files that differ in the middle only, a file
\* that cannot be opened, a single file
InitialFs ==
    { FlatFs(File(cA), File(cA), File(cC)),
      FlatFs(File(cA), File(cB), File(cC)),
      FlatFs(File(cA), Unreadable(cC), File(cC)),
      FlatFs(File(cA), Absent, Absent) }

TreeFs ==
    (<<data>> :> Dir)
    @@ (<<data, <<"a", ".", "txt">> >> :> File(cC))
    @@ (<<data, <<"B", ".", "LOG">> >> :> File(cC))
    @@ (<<data, <<"Temp">> >> :> File(cA))
    @@ (<<data, <<"lnk", ".", "txt">> >> :> Link(<<data, <<"a", ".", "txt">> >>))
    @@ (<<data, <<"node_modules">> >> :> Dir)
    @@ (<<data, <<"node_modules">>, <<"x", ".", "txt">> >> :> File(cC))
    @@ (<<data, <<"old", ".", "bak">> >> :> Dir)
    @@ (<<data, <<"old", ".", "bak">>, <<"d", ".", "txt">> >> :> File(cB))
    @@ (<<data, <<"sub">> >> :> Dir)
    @@ (<<data, <<"sub">>, <<"c", ".", "txt">> >> :> File(cC))
    @@ (<<data, <<"sub">>, <<"loop">> >> :> Link(<<data>>))
TreeRoots == {<<data>>}

NoSql == << >>
NoReply == [op |-> "none"]

InitStore ==
    /\ ops = 0
    /\ blobs = {}
    /\ assets = << >>
    /\ now = 0
    /\ scanning = [s \in Scanners |-> FALSE]
    /\ sc = [s \in Scanners |-> IdleFrame]
    /\ session = [s \in Scanners |-> EmptySession]
    /\ saved_views = << >>
    /\ view_session = << >>
    /\ reply = NoReply
    /\ tags = << >>
    /\ file_tags = << >>
    /\ pages = << >>
    /\ rules_session = "active"
    /\ jobs = << >>

(***************************************************************************)
(* Spec: scans by two scanners with sessions of their own, rule actions    *)
(* and file writes, over a directory of three files.                       *)
(***************************************************************************)
Init ==
    /\ fs \in InitialFs
    /\ InitStore
    /\ sql = NoSql

Next ==
    \/ \E s \in Scanners, root \in FlatRoots : ScanStart(s, root)
    \/ \E s \in Scanners : WalkStep(s)
    \/ \E s \in Scanners : SaveBlobStep(s)
    \/ \E s \in Scanners : SaveAssetStep(s)
    \/ \E s \in Scanners : Commit(s)
    \/ \E p, q \in FlatFiles : _move_file(p, q)
    \/ \E p \in FlatFiles : _delete_file(p)
    \/ \E p \in FlatFiles, n \in FileStates : WriteFile(p, n)

Spec == Init /\ [][Next]_vars

(***************************************************************************)
(* SpecWalk: one scanner walking a tree with deny-listed names and         *)
(* symbolic links, and stop_scan called at any moment.                     *)
(***************************************************************************)
InitWalk ==
    /\ fs = TreeFs
    /\ InitStore
    /\ sql = NoSql

NextWalk ==
    \/ \E root \in TreeRoots : ScanStart("s1", root)
    \/ WalkStep("s1")
    \/ SaveBlobStep("s1")
    \/ SaveAssetStep("s1")
    \/ Commit("s1")
    \/ stop_scan("s1")

SpecWalk == InitWalk /\ [][NextWalk]_vars

(***************************************************************************)
(* The SavedView query compiler.  A query text is a sequence of tokens; a  *)
(* string value is a sequence of tokens too, among them the quote "'".     *)
(* A value is tagged with its Python type.                                 *)
(***************************************************************************)
PyStr(v) == [t |-> "str", v |-> v]
PyInt(n) == [t |-> "int", v |-> n]
PyList(l) == [t |-> "list", v |-> l]

\* SavedViewService.operators
operators(op) ==
    CASE op = "eq" -> "="
      [] op = "ne" -> "!="
      [] op = "gt" -> ">"
      [] op = "gte" -> ">="
      [] op = "lt" -> "<"
      [] op = "lte" -> "<="
      [] op = "like" -> "LIKE"
      [] op = "in" -> "IN"
      [] op = "not_in" -> "NOT IN"
      [] op = "is_null" -> "IS NULL"
      [] op = "is_not_null" -> "IS NOT NULL"
      [] OTHER -> "="

\* SavedViewService.field_mapping, with the default of dict.get
field_mapping(field) ==
    CASE field = "name" -> "a.full_path"
      [] field = "size" -> "b.size"
      [] field = "type" -> "b.primary_type"
      [] field = "mime" -> "b.mime"
      [] field = "created" -> "b.created_at"
      [] field = "modified" -> "a.last_seen"
      [] field = "path" -> "a.full_path"
      [] field = "extension" -> "a.full_path"
      [] field = "tag" -> "ft.tag_id"
      [] OTHER -> field

\* str() of an integer of the model
int_str(n) ==
    CASE n = 0 -> "0" [] n = 1 -> "1" [] n = 2 -> "2" [] n = 3 -> "3" [] n = 5 -> "5" [] n = 7 -> "7"
      [] n = 1000 -> "1000" [] OTHER -> "n"

\* the text an f-string puts for {value}
fmt(value) ==
    IF value.t = "str" THEN value.v ELSE <<int_str(value.v)>>

quoted(value) == <<"'">> \o fmt(value) \o <<"'">>

RECURSIVE join(_, _)
join(parts, sep) ==
    IF parts = << >> THEN << >>
    ELSE IF Len(parts) = 1 THEN parts[1]
    ELSE parts[1] \o <<sep>> \o join(Tail(parts), sep)

str_lower(value) ==
    IF value.t = "str" THEN PyStr([k \in 1..Len(value.v) |-> lower(value.v[k])])
    ELSE value

\* SavedViewService.parse_condition
parse_condition(condition) ==
    LET field == condition.field
        operator == condition.op
        mapped == field_mapping(field)
        sql_field == IF field = "extension"
                     THEN <<"LOWER", "(", "SUBSTR", "(", mapped, ",", "INSTR", "(",
                            mapped, ",", "'", ".", "'", ")", "+", "1", ")", ")">>
                     ELSE <<mapped>>
        value == IF field = "extension" THEN str_lower(condition.value)
                 ELSE condition.value
        value_list == join([k \in 1..Len(value.v) |-> quoted(value.v[k])], ",")
    IN CASE operator = "in" ->
              IF value.t = "list" THEN sql_field \o <<"IN", "(">> \o value_list \o <<")">>
              ELSE sql_field \o <<"=">> \o quoted(value)
         [] operator = "not_in" ->
              IF value.t = "list" THEN sql_field \o <<"NOT IN", "(">> \o value_list \o <<")">>
              ELSE sql_field \o <<"!=">> \o quoted(value)
         [] operator = "like" -> sql_field \o <<"LIKE", "'", "%">> \o fmt(value) \o <<"%", "'">>
         [] operator = "is_null" -> sql_field \o <<"IS NULL">>
         [] operator = "is_not_null" -> sql_field \o <<"IS NOT NULL">>
         [] OTHER ->
              sql_field \o <<operators(operator)>>
                \o (IF value.t = "int" THEN fmt(value) ELSE quoted(value))

non_empty(parts) == SelectSeq(parts, LAMBDA x : x # << >>)

\* SavedViewService.parse_query_ast
parse_query_ast(query_ast) ==
    LET parsed == [k \in 1..Len(query_ast.conds) |-> parse_condition(query_ast.conds[k])]
    IN CASE query_ast.comb = "all" -> join(non_empty(parsed), "AND")
         [] query_ast.comb = "any" -> join(non_empty(parsed), "OR")
         [] query_ast.comb = "not" ->
              IF parsed[1] # << >> THEN <<"NOT", "(">> \o parsed[1] \o <<")">> ELSE << >>
         [] OTHER -> parsed[1]

\* the text execute_savedview hands to the store for an AST without sort
base_query(query_ast, limit, offset) ==
    LET where_clause == parse_query_ast(query_ast)
    IN <<"SELECT", "DISTINCT", "a.*", ",", "b.*", "FROM", "assets", "a",
         "JOIN", "blobs", "b", "ON", "a.content_hash", "=", "b.content_hash",
         "LEFT JOIN", "file_tags", "ft", "ON", "a.content_hash", "=", "ft.content_hash",
         "WHERE", "a.is_available", "=", "1">>
       \o (IF where_clause # << >> THEN <<"AND", "(">> \o where_clause \o <<")">> ELSE << >>)
       \o <<"ORDER BY", "b.created_at", "DESC">>
       \o <<"LIMIT", int_str(limit), "OFFSET", int_str(offset)>>

Limit == 1000

\* how the store reads a query text: a quote opens a string literal that the
\* next quote closes, two quotes inside a literal being one quote of the
\* string; what is not in a literal is the statement.  The result is the
\* text with every literal replaced by "?".
RECURSIVE statement_of(_, _)
statement_of(text, in_literal) ==
    IF text = << >> THEN IF in_literal THEN <<"unterminated">> ELSE << >>
    ELSE IF in_literal
         THEN IF Head(text) = "'"
              THEN IF Len(text) >= 2 /\ text[2] = "'"
                   THEN statement_of(Tail(Tail(text)), TRUE)
                   ELSE <<"?">> \o statement_of(Tail(text), FALSE)
              ELSE statement_of(Tail(text), TRUE)
         ELSE IF Head(text) = "'"
              THEN statement_of(Tail(text), TRUE)
              ELSE IF Head(text) \in {"0", "1", "2", "3", "5", "7", "1000"}
                   THEN <<"?">> \o statement_of(Tail(text), FALSE)
                   ELSE <<Head(text)>> \o statement_of(Tail(text), FALSE)

\* the ASTs of the model
Fields == {"name", "size", "extension", "tag"}
Ops == {"eq", "gt", "like", "in", "is_null", "regex"}
Plain == <<"a">>
Keyword == <<"OR">>
Upper == <<"LOG">>
Quoted == <<"x", "'", "OR", "'", "1", "'", "=", "'", "1">>
Values ==
    {PyStr(Plain), PyStr(Keyword), PyStr(Upper), PyStr(Quoted), PyInt(5), PyInt(7),
     PyList(<<PyStr(Plain)>>), PyList(<<PyStr(Quoted)>>)}
Conditions ==
    {c \in [field : Fields, op : Ops, value : Values] :
        c.value.t = "list" => c.op = "in"}
Combinators == {"all", "any", "not", "cond"}
Other == [field |-> "size", op |-> "gt", value |-> PyInt(5)]

Ast(comb, c) ==
    [comb |-> comb, conds |-> IF comb \in {"all", "any"} THEN <<c, Other>> ELSE <<c>>]

same_kind(v, w) ==
    /\ v.t = w.t
    /\ v.t = "list" => Len(v.v) = Len(w.v)

\* the pairs of ASTs that differ in the value of one condition only
AstPair(comb, c, w) ==
    [first |-> Ast(comb, c), second |-> Ast(comb, [c EXCEPT !.value = w]),
     compiled |-> FALSE, q1 |-> << >>, q2 |-> << >>]

AstPairs ==
    {AstPair(x[1], x[2], x[3]) :
        x \in {y \in Combinators \X Conditions \X Values : same_kind(y[2].value, y[3])}}

\* the two views of the pair are compiled for execution
Compile ==
    /\ sql # NoSql
    /\ ~sql.compiled
    /\ sql' = [sql EXCEPT !.compiled = TRUE,
                          !.q1 = base_query(sql.first, Limit, 0),
                          !.q2 = base_query(sql.second, Limit, 0)]
    /\ UNCHANGED <<fs, ops, blobs, assets, now, scanning, sc, session, service_vars>>

(***************************************************************************)
(* SpecQuery: the compilation of pairs of query ASTs.                      *)
(***************************************************************************)
InitQuery ==
    /\ fs = FlatFs(Absent, Absent, Absent)
    /\ InitStore
    /\ sql \in AstPairs

NextQuery == Compile

SpecQuery == InitQuery /\ [][NextQuery]_vars

(***************************************************************************)
(* The store's reading of a query text (Session.execute(text(...)) on      *)
(* SQLite).  The text is cut into lexemes, a string literal being one      *)
(* lexeme, and the WHERE expression is evaluated on every row of the join  *)
(* with SQL's three truth values.  A value of the store is NULL, an        *)
(* integer or a text; aff is the affinity of the column it was read from   *)
(* ("none" for a literal).  The model orders integers only: two texts are  *)
(* compared for equality.                                                  *)
(***************************************************************************)
Sym(tok) == [k |-> "sym", v |-> <<tok>>, n |-> 0, aff |-> "none"]
SqlText(v, aff) == [k |-> "text", v |-> v, n |-> 0, aff |-> aff]
SqlInt(n, aff) == [k |-> "int", v |-> << >>, n |-> n, aff |-> aff]
SqlNull == [k |-> "null", v |-> << >>, n |-> 0, aff |-> "none"]
SqlError == [k |-> "error", v |-> << >>, n |-> 0, aff |-> "none"]
SqlBool(b) == SqlInt(IF b THEN 1 ELSE 0, "none")

Numerals == {"0", "1", "2", "3", "5", "7", "1000"}
int_of(tok) ==
    CASE tok = "0" -> 0 [] tok = "1" -> 1 [] tok = "2" -> 2 [] tok = "3" -> 3
      [] tok = "5" -> 5
      [] tok = "7" -> 7 [] tok = "1000" -> 1000 [] OTHER -> 0

\* the place of the quote that closes a literal whose content starts at i
\* (two quotes are a quote of the content); 0 when nothing closes it
RECURSIVE closing(_, _)
closing(text, i) ==
    IF i > Len(text) THEN 0
    ELSE IF text[i] = "'"
         THEN IF i < Len(text) /\ text[i + 1] = "'" THEN closing(text, i + 2) ELSE i
         ELSE closing(text, i + 1)

RECURSIVE lex(_)
lex(text) ==
    IF text = << >> THEN << >>
    ELSE IF Head(text) = "'"
         THEN LET e == closing(text, 2)
              IN IF e = 0 THEN <<SqlError>>
                 ELSE <<SqlText(SubSeq(text, 2, e - 1), "none")>>
                        \o lex(SubSeq(text, e + 1, Len(text)))
         ELSE IF Head(text) \in Numerals
              THEN <<SqlInt(int_of(Head(text)), "none")>> \o lex(Tail(text))
              ELSE <<Sym(Head(text))>> \o lex(Tail(text))

is_sym(l, tok) == l.k = "sym" /\ l.v = <<tok>>
head_is(ls, tok) == ls # << >> /\ is_sym(ls[1], tok)

\* the text of a path: its names joined by "/"
path_text(path) == join(path, "/")

\* a row of the join: an Asset, its Blob and one of its FileTags (NoTag
\* where the LEFT JOIN finds none)
NoTag == [content_hash |-> NoHash, tag_id |-> 0]
column(name, row) ==
    CASE name = "a.full_path" -> SqlText(path_text(row.a.full_path), "text")
      [] name = "a.is_available" -> SqlInt(IF row.a.is_available THEN 1 ELSE 0, "int")
      [] name = "a.last_seen" -> SqlInt(row.a.last_seen, "int")
      [] name = "b.size" -> SqlInt(row.b.size, "int")
      [] name = "b.created_at" -> SqlInt(row.b.created_at, "int")
      [] name \in {"b.primary_type", "b.mime"} -> SqlNull
      [] name = "ft.tag_id" ->
            IF row.ft = NoTag THEN SqlNull ELSE SqlInt(row.ft.tag_id, "int")
      [] OTHER -> SqlError

\* the affinity of one operand of a comparison applied to the other
numeric_text(v) == Len(v) = 1 /\ v[1] \in Numerals
coerce(x, other) ==
    IF other.aff = "int" /\ x.aff # "int" /\ x.k = "text" /\ numeric_text(x.v)
    THEN SqlInt(int_of(x.v[1]), "none")
    ELSE IF other.aff = "text" /\ x.aff = "none" /\ x.k = "int"
         THEN SqlText(<<int_str(x.n)>>, "none")
         ELSE x

\* NULL, 0 or 1: the comparison of two values; an integer is less than a text
compare(op, l0, r0) ==
    LET l == coerce(l0, r0)
        r == coerce(r0, l0)
        eq == IF l.k # r.k THEN FALSE
              ELSE IF l.k = "int" THEN l.n = r.n ELSE l.v = r.v
        lt == IF l.k = "int" /\ r.k = "int" THEN l.n < r.n
              ELSE l.k = "int" /\ r.k = "text"
    IN IF l.k = "error" \/ r.k = "error" THEN SqlError
       ELSE IF l.k = "null" \/ r.k = "null" THEN SqlNull
       ELSE IF l.k = "text" /\ r.k = "text" /\ op \notin {"=", "!="} THEN SqlError
       ELSE CASE op = "=" -> SqlBool(eq)
              [] op = "!=" -> SqlBool(~eq)
              [] op = "<" -> SqlBool(lt)
              [] op = "<=" -> SqlBool(lt \/ eq)
              [] op = ">" -> SqlBool(~lt /\ ~eq)
              [] op = ">=" -> SqlBool(~lt)
              [] OTHER -> SqlError

\* the truth value of a value: NULL, 0 or 1
truth(x) ==
    CASE x.k \in {"null", "error"} -> x
      [] x.k = "int" -> SqlBool(x.n # 0)
      [] OTHER -> SqlBool(numeric_text(x.v) /\ int_of(x.v[1]) # 0)

sql_not(x) ==
    LET t == truth(x) IN IF t.k = "int" THEN SqlBool(t.n = 0) ELSE t
sql_and(x, y) ==
    LET a == truth(x)
        b == truth(y)
    IN IF a.k = "error" \/ b.k = "error" THEN SqlError
       ELSE IF (a.k = "int" /\ a.n = 0) \/ (b.k = "int" /\ b.n = 0) THEN SqlBool(FALSE)
       ELSE IF a.k = "null" \/ b.k = "null" THEN SqlNull
       ELSE SqlBool(TRUE)
sql_or(x, y) == sql_not(sql_and(sql_not(x), sql_not(y)))

\* x LIKE pattern: "%" stands for any text, letters match in either case
like(x, pattern) ==
    LET text == IF x.k = "int" THEN <<int_str(x.n)>> ELSE x.v
        p == pattern.v
        lead == p # << >> /\ p[1] = "%"
        trail == Len(p) >= 2 /\ p[Len(p)] = "%"
        inner == SubSeq(p, IF lead THEN 2 ELSE 1, IF trail THEN Len(p) - 1 ELSE Len(p))
        low(t) == [k \in 1..Len(t) |-> lower(t[k])]
    IN IF x.k = "error" \/ pattern.k # "text" THEN SqlError
       ELSE IF x.k = "null" THEN SqlNull
       ELSE SqlBool(\E i \in 1..(Len(text) + 1) :
                      /\ i + Len(inner) - 1 <= Len(text)
                      /\ low(SubSeq(text, i, i + Len(inner) - 1)) = low(inner)
                      /\ lead \/ i = 1
                      /\ trail \/ i + Len(inner) - 1 = Len(text))

\* the first place of a token in a text, 0 when it is not there (INSTR)
instr(text, tok) ==
    IF \E i \in 1..Len(text) : text[i] = tok
    THEN CHOOSE i \in 1..Len(text) : text[i] = tok /\ \A j \in 1..(i - 1) : text[j] # tok
    ELSE 0

Parsed(v, rest) == [v |-> v, rest |-> rest]

\* the literals of an IN list up to its closing parenthesis
RECURSIVE parse_list(_)
parse_list(ls) ==
    IF ls = << >> THEN Parsed(<<SqlError>>, << >>)
    ELSE IF is_sym(ls[1], ")") THEN Parsed(<< >>, Tail(ls))
    ELSE IF is_sym(ls[1], ",") THEN parse_list(Tail(ls))
    ELSE LET more == parse_list(Tail(ls))
         IN Parsed(<<IF ls[1].k = "sym" THEN SqlError ELSE ls[1]>> \o more.v, more.rest)

RECURSIVE any_equal(_, _)
any_equal(x, vs) ==
    IF vs = << >> THEN IF x.k = "error" THEN SqlError ELSE SqlBool(FALSE)
    ELSE sql_or(compare("=", x, Head(vs)), any_equal(x, Tail(vs)))

\* LOWER(SUBSTR(col, INSTR(col, 'tok') + 1)), the one expression with
\* functions that parse_condition writes
is_extension_expr(ls) ==
    /\ Len(ls) >= 16
    /\ is_sym(ls[1], "LOWER") /\ is_sym(ls[2], "(") /\ is_sym(ls[3], "SUBSTR")
    /\ is_sym(ls[4], "(") /\ ls[5].k = "sym" /\ is_sym(ls[6], ",")
    /\ is_sym(ls[7], "INSTR") /\ is_sym(ls[8], "(") /\ ls[9] = ls[5]
    /\ is_sym(ls[10], ",") /\ ls[11].k = "text" /\ Len(ls[11].v) = 1
    /\ is_sym(ls[12], ")") /\ is_sym(ls[13], "+") /\ ls[14] = SqlInt(1, "none")
    /\ is_sym(ls[15], ")") /\ is_sym(ls[16], ")")

extension_expr(ls, row) ==
    LET x == column(ls[5].v[1], row)
        start == instr(x.v, ls[11].v[1]) + 1
    IN IF x.k # "text" THEN x
       ELSE SqlText([k \in 1..(Len(x.v) - start + 1) |-> lower(x.v[start + k - 1])], "none")

Comparisons == {"=", "!=", "<", "<=", ">", ">="}

\* the lexemes still to read, nothing read yet
Unread(ls) == Parsed(SqlNull, ls)

\* one level of the grammar read from the lexemes x.rest on a row.  The
\* levels, loosest first: "or", "and", "not", "pred", "operand"; "or_tail"
\* and "and_tail" fold the operands that follow the value x.v already read.
RECURSIVE parse(_, _, _)
parse(level, x, row) ==
    LET ls == x.rest
    IN CASE level = "operand" ->
              IF ls = << >> THEN Parsed(SqlError, << >>)
              ELSE IF ls[1].k # "sym" THEN Parsed(ls[1], Tail(ls))
              ELSE IF is_sym(ls[1], "(")
                   THEN LET e == parse("or", Unread(Tail(ls)), row)
                        IN IF head_is(e.rest, ")")
                           THEN Parsed([e.v EXCEPT !.aff = "none"], Tail(e.rest))
                           ELSE Parsed(SqlError, << >>)
              ELSE IF is_extension_expr(ls)
                   THEN Parsed(extension_expr(ls, row), SubSeq(ls, 17, Len(ls)))
              ELSE Parsed(column(ls[1].v[1], row), Tail(ls))
         [] level = "pred" ->
              LET l == parse("operand", x, row)
                  op == IF l.rest # << >> /\ l.rest[1].k = "sym" THEN l.rest[1].v[1] ELSE "end"
                  r == parse("operand", Unread(Tail(l.rest)), row)
                  list == parse_list(Tail(Tail(l.rest)))
                  listed == IF head_is(Tail(l.rest), "(") THEN any_equal(l.v, list.v)
                            ELSE SqlError
              IN CASE op \in Comparisons -> Parsed(compare(op, l.v, r.v), r.rest)
                   [] op = "LIKE" -> Parsed(like(l.v, r.v), r.rest)
                   [] op = "IS NULL" ->
                        Parsed(IF l.v.k = "error" THEN SqlError ELSE SqlBool(l.v.k = "null"),
                               Tail(l.rest))
                   [] op = "IS NOT NULL" ->
                        Parsed(IF l.v.k = "error" THEN SqlError ELSE SqlBool(l.v.k # "null"),
                               Tail(l.rest))
                   [] op = "IN" -> Parsed(listed, list.rest)
                   [] op = "NOT IN" -> Parsed(sql_not(listed), list.rest)
                   [] OTHER -> l
         [] level = "not" ->
              IF head_is(ls, "NOT")
              THEN LET y == parse("not", Unread(Tail(ls)), row) IN Parsed(sql_not(y.v), y.rest)
              ELSE parse("pred", x, row)
         [] level = "and_tail" ->
              IF head_is(ls, "AND")
              THEN LET y == parse("not", Unread(Tail(ls)), row)
                   IN parse("and_tail", Parsed(sql_and(x.v, y.v), y.rest), row)
              ELSE x
         [] level = "and" -> parse("and_tail", parse("not", x, row), row)
         [] level = "or_tail" ->
              IF head_is(ls, "OR")
              THEN LET y == parse("and", Unread(Tail(ls)), row)
                   IN parse("or_tail", Parsed(sql_or(x.v, y.v), y.rest), row)
              ELSE x
         [] OTHER -> parse("or_tail", parse("and", x, row), row)

parse_or(ls, row) == parse("or", Unread(ls), row)

\* the truth value of a WHERE expression on a row of the join
where(ls, row) ==
    LET e == parse_or(ls, row)
    IN IF e.rest # << >> THEN SqlError ELSE truth(e.v)

\* FROM assets a JOIN blobs b ON a.content_hash = b.content_hash
\* LEFT JOIN file_tags ft ON a.content_hash = ft.content_hash
joined(a_tbl, b_tbl, ft_tbl) ==
    LET fts(h) == {ft_tbl[i] : i \in {j \in 1..Len(ft_tbl) : ft_tbl[j].content_hash = h}}
    IN UNION {{[a |-> a_tbl[k], b |-> b, ft |-> t] :
                  b \in {x \in b_tbl : x.content_hash = a_tbl[k].content_hash},
                  t \in IF fts(a_tbl[k].content_hash) = {} THEN {NoTag}
                        ELSE fts(a_tbl[k].content_hash)} : k \in 1..Len(a_tbl)}

\* the columns of SELECT DISTINCT (volume_id, mime and primary_type, which
\* nothing sets, are left out)
selected(row) ==
    [content_hash |-> row.a.content_hash, full_path |-> row.a.full_path,
     is_available |-> row.a.is_available, size |-> row.b.size,
     created_at |-> row.b.created_at, last_seen |-> row.a.last_seen]

\* the first place of a keyword among the lexemes, 0 when it is not there
RECURSIVE pos_from(_, _, _)
pos_from(ls, tok, i) ==
    IF i > Len(ls) THEN 0
    ELSE IF is_sym(ls[i], tok) THEN i ELSE pos_from(ls, tok, i + 1)

pos(ls, tok) == pos_from(ls, tok, 1)

where_of(ls) == SubSeq(ls, pos(ls, "WHERE") + 1, pos(ls, "ORDER BY") - 1)

ProbeRow ==
    [a |-> Asset(NoHash, <<data>>, 0),
     b |-> [content_hash |-> NoHash, fast_hash |-> NoHash, size |-> 0, created_at |-> 0],
     ft |-> NoTag]

\* the statement is refused (syntax error, no such column)
query_fails(ls) ==
    \/ \E i \in 1..Len(ls) : ls[i].k = "error"
    \/ pos(ls, "WHERE") = 0 \/ pos(ls, "ORDER BY") = 0
    \/ where(where_of(ls), ProbeRow).k = "error"

\* the distinct rows a SELECT DISTINCT ... WHERE ... returns
matching(ls, rows) ==
    LET cond == where_of(ls)
    IN IF cond = << >> THEN {}
       ELSE {selected(row) : row \in {x \in rows : where(cond, x) = SqlBool(TRUE)}}

\* ORDER BY key dir: every order of the rows that respects the key; the
\* order of rows with equal keys is not specified
orderings(ls, sel) ==
    LET o == pos(ls, "ORDER BY")
        key(r) == IF is_sym(ls[o + 1], "b.size") THEN r.size ELSE r.created_at
        desc == is_sym(ls[o + 2], "DESC")
        n == Cardinality(sel)
    IN {f \in [1..n -> sel] :
          /\ \A i, j \in 1..n : i # j => f[i] # f[j]
          /\ \A i \in 1..(n - 1) :
                IF desc THEN key(f[i]) >= key(f[i + 1]) ELSE key(f[i]) <= key(f[i + 1])}

\* LIMIT n OFFSET m on an ordered result
limited(ls, f) ==
    LET l == pos(ls, "LIMIT")
        last == IF ls[l + 3].n + ls[l + 1].n < Len(f) THEN ls[l + 3].n + ls[l + 1].n ELSE Len(f)
    IN IF l = 0 THEN f ELSE SubSeq(f, ls[l + 3].n + 1, last)

\* the results the store can give for a SELECT text
store_select(text, rows) ==
    LET ls == lex(text)
    IN {limited(ls, f) : f \in orderings(ls, matching(ls, rows))}

\* base_query.replace(f"LIMIT {limit} OFFSET {offset}", "")
RECURSIVE replace(_, _)
replace(text, old) ==
    IF Len(text) < Len(old) THEN text
    ELSE IF SubSeq(text, 1, Len(old)) = old
         THEN replace(SubSeq(text, Len(old) + 1, Len(text)), old)
         ELSE <<Head(text)>> \o replace(Tail(text), old)

count_query(text, limit, offset) ==
    <<"SELECT", "COUNT(*)", "FROM", "(">>
      \o replace(text, <<"LIMIT", int_str(limit), "OFFSET", int_str(offset)>>)
      \o <<")">>

\* the scalar the store gives for SELECT COUNT(*) FROM (select)
store_count(text, rows) ==
    LET ls == lex(text)
    IN Cardinality(matching(SubSeq(ls, 5, Len(ls) - 1), rows))

(***************************************************************************)
(* The SavedView store.  saved_views is the committed table (a function    *)
(* from the ids of its rows); view_session holds the rows that the session *)
(* of the one SavedViewService has changed in memory and not yet flushed.  *)
(* SessionLocal is made with autoflush=False, so nothing but commit()      *)
(* writes them, and commit() writes all of them.                           *)
(***************************************************************************)
MaxViews == 2

\* the keys of SavedViewService.operators and SavedViewService.field_mapping
known_operators ==
    {"eq", "ne", "gt", "gte", "lt", "lte", "like", "in", "not_in", "is_null", "is_not_null"}
known_fields ==
    {"name", "size", "type", "mime", "created", "modified", "path", "extension", "tag"}

SavedView(name, query_ast, layout_json) ==
    [name |-> name, query_ast_json |-> query_ast, layout_json |-> layout_json]

\* arguments left out of a call (None), and the arguments of the model
NoName == "None"
NoAst == [comb |-> "None", conds |-> << >>]
NoLayout == "None"
ViewNames == {"v", "w"}
Layouts == {"grid"}
GoodAst == Ast("cond", Other)
UnknownField == Ast("cond", [field |-> "colour", op |-> "eq", value |-> PyStr(Plain)])
UnknownOp == Ast("all", [field |-> "name", op |-> "regex", value |-> PyStr(Plain)])
NoField == Ast("not", [field |-> "", op |-> "eq", value |-> PyStr(Plain)])
EmptyAst == [comb |-> "all", conds |-> << >>]
ViewAsts == {GoodAst, UnknownField, UnknownOp, NoField, EmptyAst}

\* the object the session hands out for a row: the one it holds, if it holds one
loaded(id) == IF id \in DOMAIN view_session THEN view_session[id] ELSE saved_views[id]

\* Session.commit() of the service: every row changed in memory is written
flushed(tbl, sess) ==
    [id \in DOMAIN tbl |-> IF id \in DOMAIN sess THEN sess[id] ELSE tbl[id]]

\* the id the store gives a new row
next_id(tbl) == IF DOMAIN tbl = {} THEN 1 ELSE 1 + CHOOSE m \in DOMAIN tbl : \A k \in DOMAIN tbl : k <= m

Reply(op, id, name, status) == [op |-> op, id |-> id, name |-> name, status |-> status]

\* SavedViewService.create_savedview
create_savedview(name, query_ast, layout_json) ==
    /\ next_id(saved_views) <= MaxViews
    /\ IF parse_query_ast(query_ast) = << >>
       THEN /\ reply' = Reply("create", 0, name, "error")
            /\ UNCHANGED <<saved_views, view_session>>
       ELSE LET id == next_id(saved_views)
                tbl == flushed(saved_views, view_session)
            IN /\ saved_views' =
                    [k \in DOMAIN tbl \cup {id} |->
                        IF k = id THEN SavedView(name, query_ast, layout_json) ELSE tbl[k]]
               /\ view_session' = << >>
               /\ reply' = Reply("create", id, name, "success")
    /\ UNCHANGED <<fs, ops, blobs, assets, now, scanning, sc, session, sql, jobs, tags, file_tags, pages,
                   rules_session>>

\* SavedViewService.update_savedview
update_savedview(savedview_id, name, query_ast, layout_json) ==
    /\ IF savedview_id \notin DOMAIN saved_views
       THEN /\ reply' = Reply("update", savedview_id, name, "error")
            /\ UNCHANGED <<saved_views, view_session>>
       ELSE LET savedview == loaded(savedview_id)
                named == IF name # NoName THEN [savedview EXCEPT !.name = name] ELSE savedview
                parsed == IF query_ast # NoAst
                          THEN [named EXCEPT !.query_ast_json = query_ast] ELSE named
                laid == IF layout_json # NoLayout
                        THEN [parsed EXCEPT !.layout_json = layout_json] ELSE parsed
                hold(row) == [id \in DOMAIN view_session \cup {savedview_id} |->
                                 IF id = savedview_id THEN row ELSE view_session[id]]
            IN IF query_ast # NoAst /\ parse_query_ast(query_ast) = << >>
               THEN /\ view_session' = hold(named)
                    /\ reply' = Reply("update", savedview_id, name, "error")
                    /\ UNCHANGED saved_views
               ELSE /\ saved_views' = flushed(saved_views, hold(laid))
                    /\ view_session' = << >>
                    /\ reply' = Reply("update", savedview_id, name, "success")
    /\ UNCHANGED <<fs, ops, blobs, assets, now, scanning, sc, session, sql, jobs, tags, file_tags, pages,
                   rules_session>>

\* SavedViewService.delete_savedview
delete_savedview(savedview_id) ==
    /\ IF savedview_id \notin DOMAIN saved_views
       THEN /\ reply' = Reply("delete", savedview_id, NoName, "error")
            /\ UNCHANGED <<saved_views, view_session>>
       ELSE LET tbl == flushed(saved_views, view_session)
            IN /\ saved_views' = [k \in DOMAIN tbl \ {savedview_id} |-> tbl[k]]
               /\ view_session' = << >>
               /\ reply' = Reply("delete", savedview_id, NoName, "success")
    /\ UNCHANGED <<fs, ops, blobs, assets, now, scanning, sc, session, sql, jobs, tags, file_tags, pages,
                   rules_session>>

\* SavedViewService.execute_savedview; pages keeps what each call returned
Page(files, total) == [error |-> FALSE, files |-> files, total |-> total]
NoPage == [error |-> TRUE, files |-> << >>, total |-> 0]

execute_savedview(savedview_id, limit, offset) ==
    /\ <<savedview_id, limit, offset>> \notin DOMAIN pages
    /\ IF savedview_id \notin DOMAIN saved_views
       THEN pages' = pages @@ (<<savedview_id, limit, offset>> :> NoPage)
       ELSE LET base == base_query(loaded(savedview_id).query_ast_json, limit, offset)
                rows == joined(assets, blobs, file_tags)
            IN IF query_fails(lex(base))
               THEN pages' = pages @@ (<<savedview_id, limit, offset>> :> NoPage)
               ELSE \E files \in store_select(base, rows) :
                      pages' = pages @@
                        (<<savedview_id, limit, offset>> :>
                           Page(files, store_count(count_query(base, limit, offset), rows)))
    /\ UNCHANGED <<fs, ops, blobs, assets, now, scanning, sc, session, sql, jobs,
                   saved_views, view_session, reply, tags, file_tags, rules_session>>

(***************************************************************************)
(* SavedViewService.export_symlinks.  The links and the manifest are       *)
(* entries of fs under the export directory; reply is what the call        *)
(* returns together with the manifest it wrote, and pages keeps the        *)
(* replies of the exports in their order.                                  *)
(***************************************************************************)
\* the limit export_symlinks gives execute_savedview (10000 in the source;
\* the catalogs of the model have three rows)
ExportLimit == 2
MaxExports == 2

\* PurePath.stem
stem(name) == SubSeq(name, 1, Len(name) - Len(suffix(name)))

\* Path.exists(): follows links, false for a link whose target is gone
Path_exists(f, path) ==
    LET r == resolve(f, path)
    IN r # ENOENT /\ r \in DOMAIN f /\ f[r].kind # "none"

\* there is an entry of this name, be it a link to nothing
entry_at(f, path) == path \in DOMAIN f /\ f[path].kind # "none"

\* the loop "while target_path.exists()" of lines 356-364
RECURSIVE free_target(_, _, _, _)
free_target(f, export_dir, name, counter) ==
    LET target_path ==
            Append(export_dir,
                   IF counter = 0 THEN name
                   ELSE stem(name) \o <<"_", int_str(counter)>> \o suffix(name))
    IN IF Path_exists(f, target_path)
       THEN free_target(f, export_dir, name, counter + 1)
       ELSE target_path

\* the loop over the rows (lines 346-377) from row k on; run holds the file
\* system, created_links and failed_links so far
RECURSIVE link_rows(_, _, _, _)
link_rows(files, k, export_dir, run) ==
    IF k > Len(files) THEN run
    ELSE LET source_path == files[k].full_path
             target_path == free_target(run.fs, export_dir, source_path[Len(source_path)], 0)
         IN IF ~Path_exists(run.fs, source_path)
            THEN link_rows(files, k + 1, export_dir,
                     [run EXCEPT !.failed_links =
                         Append(@, [source |-> source_path, error |-> "missing"])])
            ELSE IF entry_at(run.fs, target_path)
                 THEN link_rows(files, k + 1, export_dir,
                          [run EXCEPT !.failed_links =
                              Append(@, [source |-> source_path, error |-> "FileExistsError"])])
                 ELSE link_rows(files, k + 1, export_dir,
                          [run EXCEPT
                              !.fs = (target_path :> Link(source_path)) @@ @,
                              !.created_links =
                                  Append(@, [source |-> source_path, target |-> target_path])])

manifest_name == <<"manifest", ".", "json">>
Manifest == [size |-> 1, head |-> 9, mid |-> 0, tail |-> 0]

\* open(manifest_path, 'w'): writes the file the path resolves to
write_manifest(f, manifest_path) ==
    LET at == IF entry_at(f, manifest_path) /\ f[manifest_path].kind = "link"
              THEN f[manifest_path].target ELSE manifest_path
    IN (at :> File(Manifest)) @@ f

ExportError(savedview_id) ==
    [op |-> "export", id |-> savedview_id, name |-> NoName, status |-> "error",
     total_files |-> 0, created_links |-> 0, failed_links |-> 0,
     files |-> << >>, errors |-> << >>, matched |-> 0]

\* what the call returns and its manifest; matched is the number of rows
\* the view matches, kept for the properties
ExportReply(savedview_id, files, run, matched) ==
    [op |-> "export", id |-> savedview_id, name |-> NoName, status |-> "success",
     total_files |-> Len(files), created_links |-> Len(run.created_links),
     failed_links |-> Len(run.failed_links),
     files |-> run.created_links, errors |-> run.failed_links, matched |-> matched]

export_symlinks(savedview_id, export_dir) ==
    /\ Cardinality(DOMAIN pages) < MaxExports
    /\ IF savedview_id \notin DOMAIN saved_views
       THEN /\ reply' = ExportError(savedview_id)
            /\ fs' = fs
       ELSE LET base == base_query(loaded(savedview_id).query_ast_json, ExportLimit, 0)
                ls == lex(base)
                rows == joined(assets, blobs, file_tags)
            IN IF query_fails(ls)
               THEN /\ reply' = ExportError(savedview_id)
                    /\ fs' = fs
               ELSE \E files \in store_select(base, rows) :
                      IF files = << >> \/ (entry_at(fs, export_dir) /\ ~is_dir(fs, export_dir))
                      THEN /\ reply' = ExportError(savedview_id)
                           /\ fs' = fs
                      ELSE LET made == (export_dir :> Dir) @@ fs
                               run == link_rows(files, 1, export_dir,
                                          [fs |-> made, created_links |-> << >>,
                                           failed_links |-> << >>])
                           IN /\ fs' = write_manifest(run.fs, Append(export_dir, manifest_name))
                              /\ reply' = ExportReply(savedview_id, files, run,
                                                      Cardinality(matching(ls, rows)))
    /\ pages' = pages @@ (<<"export", Cardinality(DOMAIN pages) + 1>> :> reply')
    /\ UNCHANGED <<ops, blobs, assets, now, scanning, sc, session, sql, jobs,
                   saved_views, view_session, tags, file_tags, rules_session>>

(***************************************************************************)
(* SpecViews: the calls of the SavedView router on its one service.        *)
(***************************************************************************)
InitViews ==
    /\ fs = FlatFs(Absent, Absent, Absent)
    /\ InitStore
    /\ sql = NoSql

NextViews ==
    \/ \E name \in ViewNames, ast \in ViewAsts, layout \in Layouts \cup {NoLayout} :
          create_savedview(name, ast, layout)
    \/ \E id \in 1..MaxViews, name \in ViewNames \cup {NoName},
          ast \in ViewAsts \cup {NoAst}, layout \in Layouts \cup {NoLayout} :
          update_savedview(id, name, ast, layout)
    \/ \E id \in 1..MaxViews : delete_savedview(id)

SpecViews == InitViews /\ [][NextViews]_vars

(***************************************************************************)
(* SpecExec: executions of stored views on catalogs that scans, delete_file *)
(* and add_tag leave: f1 and f2 hold the same bytes, f3 others.  View 1 is  *)
(* a combinator, views 2 and 3 are its conditions alone.                    *)
(***************************************************************************)
StoredBlob(c, t) ==
    [content_hash |-> _calculate_content_hash(c), fast_hash |-> _calculate_fast_hash(c),
     size |-> c.size, created_at |-> t]
FileTag(c, tag_id) == [content_hash |-> _calculate_content_hash(c), tag_id |-> tag_id]
Tag(name) == [name |-> name]

ExecTaggings ==
    { << >>, <<FileTag(cA, 1), FileTag(cA, 2)>>, <<FileTag(cA, 1), FileTag(cC, 2)>> }

ExecAssets(gone) ==
    [k \in 1..3 |->
        [Asset(_calculate_content_hash(IF k = 3 THEN cC ELSE cA), <<f1, f2, f3>>[k], 1)
            EXCEPT !.is_available = (k # gone)]]

Breakout == <<"x", "'", ")", "OR", "(", "'", "1", "'", "=", "'", "1">>
TagIs(n) == [field |-> "tag", op |-> "eq", value |-> PyInt(n)]
ExecConds ==
    { TagIs(1), TagIs(2), Other,
      [field |-> "tag", op |-> "is_null", value |-> PyInt(0)],
      [field |-> "type", op |-> "eq", value |-> PyStr(Plain)],
      [field |-> "name", op |-> "eq", value |-> PyStr(Breakout)] }

ExecAst(comb, c1, c2) ==
    [comb |-> comb, conds |-> IF comb \in {"all", "any"} THEN <<c1, c2>> ELSE <<c1>>]

ExecViews(comb, c1, c2) ==
    <<SavedView("v", ExecAst(comb, c1, c2), NoLayout),
      SavedView("c1", Ast("cond", c1), NoLayout),
      SavedView("c2", Ast("cond", c2), NoLayout)>>

ExecCatalog ==
    /\ fs = FlatFs(File(cA), File(cA), File(cC))
    /\ ops = 0
    /\ now = 2
    /\ scanning = [s \in Scanners |-> FALSE]
    /\ sc = [s \in Scanners |-> IdleFrame]
    /\ session = [s \in Scanners |-> EmptySession]
    /\ sql = NoSql
    /\ blobs = {StoredBlob(cA, 1), StoredBlob(cC, 2)}
    /\ \E gone \in {0, 3} : assets = ExecAssets(gone)
    /\ tags = <<Tag("red"), Tag("blue")>>
    /\ file_tags \in ExecTaggings
    /\ rules_session = "active"
    /\ jobs = << >>
    /\ view_session = << >>
    /\ reply = NoReply
    /\ pages = << >>

InitExec ==
    /\ ExecCatalog
    /\ \E comb \in {"all", "any", "not"}, c1 \in ExecConds, c2 \in {TagIs(2), Other} :
          saved_views = ExecViews(comb, c1, c2)

NextExec == \E id \in 1..3 : execute_savedview(id, Limit, 0)

SpecExec == InitExec /\ [][NextExec]_vars

(***************************************************************************)
(* SpecPages: view 1 of the same catalogs read whole and in pages.         *)
(***************************************************************************)
PageCalls == {<<Limit, 0>>, <<1, 0>>, <<1, 1>>, <<2, 0>>}

NextPages == \E call \in PageCalls : execute_savedview(1, call[1], call[2])

InitPages ==
    /\ ExecCatalog
    /\ \E c1 \in ExecConds : saved_views = ExecViews("any", c1, Other)

SpecPages == InitPages /\ [][NextPages]_vars

(***************************************************************************)
(* SpecExport: exports of a stored view into one directory, twice at most, *)
(* while another program may remove a source file.  f1 and g1 have the     *)
(* same name in two directories.                                           *)
(***************************************************************************)
other == <<"other">>
g1 == <<other, <<"f1", ".", "txt">> >>
export == <<"export">>

ExportFs(n1, n2, n3) ==
    FlatFs(n1, n2, Absent) @@ (<<other>> :> Dir) @@ (g1 :> n3)

ExportAssets ==
    <<Asset(_calculate_content_hash(cA), f1, 1), Asset(_calculate_content_hash(cA), f2, 1),
      Asset(_calculate_content_hash(cC), g1, 1)>>

ExportConds ==
    { Other,
      [field |-> "tag", op |-> "is_null", value |-> PyInt(0)],
      [field |-> "name", op |-> "like", value |-> PyStr(<<"f1">>)],
      [field |-> "size", op |-> "gt", value |-> PyInt(1000)] }

InitExport ==
    /\ \E n1 \in {File(cA), Absent}, n2 \in {File(cA), Absent}, n3 \in {File(cC), Absent} :
          fs = ExportFs(n1, n2, n3)
    /\ ops = 0
    /\ now = 2
    /\ scanning = [s \in Scanners |-> FALSE]
    /\ sc = [s \in Scanners |-> IdleFrame]
    /\ session = [s \in Scanners |-> EmptySession]
    /\ sql = NoSql
    /\ blobs = {StoredBlob(cA, 1), StoredBlob(cC, 2)}
    /\ assets = ExportAssets
    /\ tags = << >>
    /\ file_tags = << >>
    /\ rules_session = "active"
    /\ jobs = << >>
    /\ view_session = << >>
    /\ reply = NoReply
    /\ pages = << >>
    /\ \E c \in ExportConds : saved_views = <<SavedView("v", Ast("cond", c), NoLayout)>>

NextExport ==
    \/ \E id \in 1..2 : export_symlinks(id, <<export>>)
    \/ \E p \in {f1, g1} : WriteFile(p, Absent)

SpecExport == InitExport /\ [][NextExport]_vars

(***************************************************************************)
(* The rules engine (RulesEngine and its router).  A rule is the dict of   *)
(* the request: keys is the set of the keys it has.  An entry of           *)
(* "then" is a dict {action, args} or, where the request carries something *)
(* else, a bare string.  The one RulesEngine of the process has one        *)
(* session: rules_session is "inactive" after a commit whose flush failed  *)
(* and that no rollback() followed; every query then raises.               *)
(***************************************************************************)
MaxRuleCalls == 2
MaxFaults == 1

\* the keys of RulesEngine.condition_operators, action_handlers, field_types
condition_operators ==
    {"eq", "ne", "gt", "gte", "lt", "lte", "contains", "starts_with", "ends_with",
     "regex", "in", "not_in", "is_null", "is_not_null"}
action_handlers ==
    {"add_tag", "remove_tag", "set_primary_type", "move_file", "copy_file", "delete_file",
     "generate_preview", "extract_metadata", "send_notification"}
field_types ==
    {"name", "size", "type", "mime", "created", "modified", "path", "extension", "tag"}

PyNone == [t |-> "none", v |-> 0]

Rule(name, when, then) ==
    [keys |-> {"name", "when", "then"}, name |-> name, when |-> when, then |-> then]
Unnamed(when, then) == [Rule("", when, then) EXCEPT !.keys = {"when", "then"}]
Condition(field, op, value) == [field |-> field, op |-> op, value |-> value]
Args(name, path) == [name |-> name, path |-> path]
Action(action, args) == [t |-> "dict", action |-> action, args |-> args]
Bare(text) == [t |-> "str", action |-> text, args |-> Args("", << >>)]

\* the file_info the router builds from a Blob and an Asset
FileInfo(asset, blob) ==
    [content_hash |-> blob.content_hash, full_path |-> asset.full_path, size |-> blob.size,
     created_at |-> blob.created_at, last_seen |-> asset.last_seen]

PyDatetime(t) == [t |-> "datetime", v |-> t]

\* RulesEngine._get_field_value (primary_type and mime are NULL in every
\* row the scanner writes; file_info has no key 'tags', so the default [])
_get_field_value(file_info, field) ==
    CASE field = "name" -> PyStr(file_info.full_path[Len(file_info.full_path)])
      [] field = "size" -> PyInt(file_info.size)
      [] field = "created" -> PyDatetime(file_info.created_at)
      [] field = "modified" -> PyDatetime(file_info.last_seen)
      [] field = "path" -> PyStr(path_text(file_info.full_path))
      [] field = "extension" ->
            PyStr(suffix_lower(file_info.full_path[Len(file_info.full_path)]))
      [] field = "tag" -> PyList(<< >>)
      [] OTHER -> PyNone

\* value.lower() in field_value.lower(), at the start or at the end if asked
py_contains(text, part, at_start, at_end) ==
    LET low(t) == [k \in 1..Len(t) |-> lower(t[k])]
    IN \E i \in 1..(Len(text) + 1) :
          /\ i + Len(part) - 1 <= Len(text)
          /\ low(SubSeq(text, i, i + Len(part) - 1)) = low(part)
          /\ at_start => i = 1
          /\ at_end => i + Len(part) - 1 = Len(text)

\* the operators on the values of the model; an ordering of two values
\* that are not both numbers raises TypeError, which evaluate_condition
\* turns into False (two strings are ordered by Python; the rules of the
\* model order no strings, and use no regex)
compares(op, field_value, value) ==
    LET numbers == field_value.t = "int" /\ value.t = "int"
        strings == field_value.t = "str" /\ value.t = "str"
        member == \E k \in 1..Len(value.v) : value.v[k] = field_value
    IN CASE op = "eq" -> field_value = value
         [] op = "ne" -> field_value # value
         [] op = "gt" -> numbers /\ field_value.v > value.v
         [] op = "gte" -> numbers /\ field_value.v >= value.v
         [] op = "lt" -> numbers /\ field_value.v < value.v
         [] op = "lte" -> numbers /\ field_value.v <= value.v
         [] op = "contains" ->
               strings /\ py_contains(field_value.v, value.v, FALSE, FALSE)
         [] op = "starts_with" ->
               strings /\ py_contains(field_value.v, value.v, TRUE, FALSE)
         [] op = "ends_with" ->
               strings /\ py_contains(field_value.v, value.v, FALSE, TRUE)
         [] op = "in" -> value.t = "list" /\ member
         [] op = "not_in" -> value.t = "list" /\ ~member
         [] op = "is_null" -> field_value = PyNone
         [] op = "is_not_null" -> field_value # PyNone
         [] OTHER -> FALSE

\* condition.get('field'), condition.get('op', default), condition.get('value'):
\* a dict is a record, a key it does not have is not in its DOMAIN; None and
\* '' are both false, the model writes "" for either
field_of(condition) == IF "field" \in DOMAIN condition THEN condition.field ELSE ""
op_of(condition, default) == IF "op" \in DOMAIN condition THEN condition.op ELSE default
value_of(condition) == IF "value" \in DOMAIN condition THEN condition.value ELSE PyNone

\* RulesEngine.evaluate_condition
evaluate_condition(condition, file_info) ==
    IF field_of(condition) = "" \/ op_of(condition, "eq") \notin condition_operators
    THEN FALSE
    ELSE compares(op_of(condition, "eq"),
                  _get_field_value(file_info, field_of(condition)), value_of(condition))

\* the combinators of "when"; {} is the dict of rule.get('when', {})
AllOf(conditions) == [all |-> conditions]
AnyOf(conditions) == [any |-> conditions]
NotOf(condition) == [not |-> condition]
EmptyDict == << >>

\* how an evaluation ended: its value and the number of conditions that
\* were handed to evaluate_condition
Evaluation(value, evaluated) == [value |-> value, evaluated |-> evaluated]

\* the loop of "all" run to its end whatever a condition gives
evaluate_all_through(conditions, k, file_info) ==
    Evaluation(\A j \in k..Len(conditions) : evaluate_condition(conditions[j], file_info),
               Len(conditions))

\* the loop of lines 95-98 from condition k on
RECURSIVE evaluate_all(_, _, _)
evaluate_all(conditions, k, file_info) ==
    IF k > Len(conditions) THEN Evaluation(TRUE, k - 1)
    ELSE IF ~evaluate_condition(conditions[k], file_info) THEN Evaluation(FALSE, k)
    ELSE evaluate_all(conditions, k + 1, file_info)

\* the loop of lines 102-105 from condition k on
RECURSIVE evaluate_any(_, _, _)
evaluate_any(conditions, k, file_info) ==
    IF k > Len(conditions) THEN Evaluation(FALSE, k - 1)
    ELSE IF evaluate_condition(conditions[k], file_info) THEN Evaluation(TRUE, k)
    ELSE evaluate_any(conditions, k + 1, file_info)

\* RulesEngine.evaluate_rule with the number of conditions it evaluated
evaluation_of(rule, file_info) ==
    LET conditions == IF "when" \in rule.keys THEN rule.when ELSE EmptyDict
    IN CASE "all" \in DOMAIN conditions -> evaluate_all(conditions.all, 1, file_info)
         [] "any" \in DOMAIN conditions -> evaluate_any(conditions.any, 1, file_info)
         [] "not" \in DOMAIN conditions ->
               Evaluation(~evaluate_condition(conditions.not, file_info), 1)
         [] OTHER -> Evaluation(evaluate_condition(conditions, file_info), 1)

\* RulesEngine.evaluate_rule
evaluate_rule(rule, file_info) == evaluation_of(rule, file_info).value

\* _validate_condition without the test of the operator
_validate_condition_any_operator(condition) ==
    field_of(condition) # "" /\ field_of(condition) \in field_types

\* RulesEngine._validate_condition, _validate_conditions, _validate_actions,
\* validate_rule
_validate_condition(condition) ==
    /\ field_of(condition) # "" /\ op_of(condition, "") # ""
    /\ field_of(condition) \in field_types
    /\ op_of(condition, "") \in condition_operators

_validate_conditions(conditions) ==
    CASE "all" \in DOMAIN conditions ->
            \A k \in 1..Len(conditions.all) : _validate_condition(conditions.all[k])
      [] "any" \in DOMAIN conditions ->
            \A k \in 1..Len(conditions.any) : _validate_condition(conditions.any[k])
      [] "not" \in DOMAIN conditions -> _validate_condition(conditions.not)
      [] OTHER -> _validate_condition(conditions)

_validate_actions(actions) ==
    \A k \in 1..Len(actions) :
        /\ actions[k].t = "dict"
        /\ actions[k].action # "" /\ actions[k].action \in action_handlers

validate_rule(rule) ==
    /\ {"name", "when", "then"} \subseteq rule.keys
    /\ _validate_conditions(rule.when)
    /\ _validate_actions(rule.then)

\* what the handlers work on: the files, the tables, the session of the
\* engine and the number of commits the store is going to refuse
World(f, a_tbl, t_tbl, ft_tbl, sess, faults) ==
    [fs |-> f, assets |-> a_tbl, tags |-> t_tbl, file_tags |-> ft_tbl,
     session |-> sess, faults |-> faults]
Outcome(w, success) == [w |-> w, success |-> success]

\* _add_tag without the query for the existing FileTag
add_tag_unchecked(w, file_info, args) ==
    IF args.name = "" \/ file_info.content_hash = NoHash THEN Outcome(w, FALSE)
    ELSE IF w.session = "inactive" THEN Outcome([w EXCEPT !.session = "active"], FALSE)
    ELSE LET found == {i \in 1..Len(w.tags) : w.tags[i].name = args.name}
             tag_id == IF found = {} THEN Len(w.tags) + 1
                       ELSE CHOOSE i \in found : \A j \in found : i <= j
             row == [content_hash |-> file_info.content_hash, tag_id |-> tag_id]
         IN IF w.faults > 0 THEN Outcome([w EXCEPT !.faults = @ - 1], FALSE)
            ELSE Outcome([w EXCEPT
                            !.tags = IF found = {} THEN Append(@, Tag(args.name)) ELSE @,
                            !.file_tags = Append(@, row)], TRUE)

\* RulesEngine._add_tag
add_tag(w, file_info, args) ==
    IF args.name = "" \/ file_info.content_hash = NoHash THEN Outcome(w, FALSE)
    \* the first query raises on an inactive session; except: rollback()
    ELSE IF w.session = "inactive" THEN Outcome([w EXCEPT !.session = "active"], FALSE)
    ELSE LET found == {i \in 1..Len(w.tags) : w.tags[i].name = args.name}
             \* a new Tag is flushed and has its id before the commit
             tag_id == IF found = {} THEN Len(w.tags) + 1
                       ELSE CHOOSE i \in found : \A j \in found : i <= j
             row == [content_hash |-> file_info.content_hash, tag_id |-> tag_id]
             existing == \E i \in 1..Len(w.file_tags) : w.file_tags[i] = row
         IN IF existing THEN Outcome(w, TRUE)
            \* commit refused: except: rollback(), the flushed Tag goes too
            ELSE IF w.faults > 0 THEN Outcome([w EXCEPT !.faults = @ - 1], FALSE)
            ELSE Outcome([w EXCEPT
                            !.tags = IF found = {} THEN Append(@, Tag(args.name)) ELSE @,
                            !.file_tags = Append(@, row)], TRUE)

\* shutil.move(source, target): into target when it is a directory other
\* than source itself
real_dst(f, source, target) ==
    IF is_dir(f, target) /\ target # source
    THEN Append(target, source[Len(source)])
    ELSE target

parent_is_dir(f, path) == Len(path) = 1 \/ is_dir(f, SubSeq(path, 1, Len(path) - 1))

\* the source is not there; a directory is moved into itself (the targets
\* of the model are inside the one directory a row can name); the name is
\* taken in the target directory; the target has no directory
move_raises(f, source, target) ==
    \/ ~entry_at(f, source)
    \/ is_dir(f, source) /\ target # source
    \/ is_dir(f, target) /\ target # source /\ entry_at(f, real_dst(f, source, target))
    \/ ~parent_is_dir(f, real_dst(f, source, target))

moved(f, source, target) ==
    IF real_dst(f, source, target) = source THEN f
    ELSE (real_dst(f, source, target) :> f[source]) @@ (source :> Absent) @@ f

\* RulesEngine._move_file with every outcome of shutil.move and of commit()
move_file(w, file_info, args) ==
    IF args.path = << >> \/ file_info.full_path = << >> THEN Outcome(w, FALSE)
    ELSE LET source_path == file_info.full_path
             target_path == args.path
             after == [w EXCEPT !.fs = moved(w.fs, source_path, target_path)]
             rows == asset_at(w.assets, source_path)
             first == CHOOSE k \in rows : \A j \in rows : k <= j
         IN IF move_raises(w.fs, source_path, target_path) THEN Outcome(w, FALSE)
            \* the query raises on an inactive session; no rollback()
            ELSE IF w.session = "inactive" THEN Outcome(after, FALSE)
            ELSE IF rows = {} THEN Outcome(after, TRUE)
            \* commit refused: the flush fails, nothing rolls the session back
            ELSE IF w.faults > 0
                 THEN Outcome([after EXCEPT !.session = "inactive", !.faults = @ - 1], FALSE)
            ELSE Outcome([after EXCEPT !.assets[first].full_path = target_path], TRUE)

\* RulesEngine._delete_file with every outcome of os.remove and of commit():
\* os.remove raises where there is no entry or a directory
delete_file(w, file_info, args) ==
    IF file_info.full_path = << >> THEN Outcome(w, FALSE)
    ELSE LET source_path == file_info.full_path
             after == [w EXCEPT !.fs = (source_path :> Absent) @@ @]
             rows == asset_at(w.assets, source_path)
             first == CHOOSE k \in rows : \A j \in rows : k <= j
         IN IF ~entry_at(w.fs, source_path) \/ is_dir(w.fs, source_path)
            THEN Outcome(w, FALSE)
            \* the query raises on an inactive session; no rollback()
            ELSE IF w.session = "inactive" THEN Outcome(after, FALSE)
            ELSE IF rows = {} THEN Outcome(after, TRUE)
            \* commit refused: the flush fails, nothing rolls the session back
            ELSE IF w.faults > 0
                 THEN Outcome([after EXCEPT !.session = "inactive", !.faults = @ - 1], FALSE)
            ELSE Outcome([after EXCEPT !.assets[first].is_available = FALSE], TRUE)

\* RulesEngine._send_notification
send_notification(w, file_info, args) == Outcome(w, TRUE)

\* an entry of the result list; rule and k are the place of the rule in the
\* list of the request and of the action in the rule, kept for the
\* properties
ActionResult(rule, k, action, success) ==
    [rule |-> rule, k |-> k, action |-> action, success |-> success]

\* RulesEngine.execute_actions from entry k on.  A bare string has no
\* get(): the AttributeError is caught at line 146 and raised again by
\* action.get at line 149, out of execute_actions.
RECURSIVE execute_actions(_, _, _, _, _)
execute_actions(actions, k, file_info, rule, run) ==
    IF k > Len(actions) THEN run
    ELSE IF actions[k].t # "dict" THEN [run EXCEPT !.raised = TRUE]
    ELSE IF actions[k].action \notin action_handlers
         THEN execute_actions(actions, k + 1, file_info, rule,
                  [run EXCEPT !.results = Append(@, ActionResult(rule, k, actions[k].action, FALSE))])
    ELSE LET out == CASE actions[k].action = "add_tag" ->
                            add_tag(run.w, file_info, actions[k].args)
                      [] actions[k].action = "move_file" ->
                            move_file(run.w, file_info, actions[k].args)
                      [] actions[k].action = "delete_file" ->
                            delete_file(run.w, file_info, actions[k].args)
                      [] actions[k].action = "send_notification" ->
                            send_notification(run.w, file_info, actions[k].args)
         IN execute_actions(actions, k + 1, file_info, rule,
                [run EXCEPT !.w = out.w,
                            !.results = Append(@, ActionResult(rule, k, actions[k].action,
                                                               out.success))])

\* the loop of RulesEngine.process_file from rule r on
RECURSIVE process_rules(_, _, _, _)
process_rules(rules, r, file_info, run) ==
    IF r > Len(rules) \/ run.raised THEN run
    ELSE IF evaluate_rule(rules[r], file_info)
         THEN process_rules(rules, r + 1, file_info,
                  execute_actions(IF "then" \in rules[r].keys THEN rules[r].then ELSE << >>,
                                  1, file_info, r,
                                  [run EXCEPT !.matched_rules = @ + 1]))
         ELSE process_rules(rules, r + 1, file_info, run)

\* RulesEngine.process_file: the world it leaves and the dict it returns
\* (error: the dict of line 182, which has no other key than success)
process_file(w, file_info, rules) ==
    LET run == process_rules(rules, 1, file_info,
                   [w |-> w, results |-> << >>, matched_rules |-> 0, raised |-> FALSE])
    IN [w |-> run.w,
        result |-> IF run.raised
                   THEN [success |-> FALSE, error |-> TRUE, matched_rules |-> 0,
                         executed_actions |-> 0, results |-> << >>]
                   ELSE [success |-> TRUE, error |-> FALSE,
                         matched_rules |-> run.matched_rules,
                         executed_actions |-> Len(run.results), results |-> run.results],
        \* what ran, for the properties: the entries of the actions executed
        executed |-> run.results,
        file_info |-> file_info]

\* what a call of the router returned (http) and, for the properties, the
\* rules it was given and what each process_file of the call did
RuleReply(op, http, rules, runs) ==
    [op |-> op, status |-> IF http = "200" THEN "success" ELSE "error", http |-> http,
     rules |-> rules,
     runs |-> [n \in 1..Len(runs) |->
                 [file_info |-> runs[n].file_info, result |-> runs[n].result,
                  executed |-> runs[n].executed]]]

engine_world(faults) == World(fs, assets, tags, file_tags, rules_session, faults)

\* the handlers have written the files and committed the tables of w
left_by(w) ==
    /\ fs' = w.fs
    /\ assets' = w.assets
    /\ tags' = w.tags
    /\ file_tags' = w.file_tags
    /\ rules_session' = w.session

\* the rows of the query for the available assets of a content hash
available_at(a_tbl, content_hash) ==
    {k \in 1..Len(a_tbl) : a_tbl[k].content_hash = content_hash /\ a_tbl[k].is_available}

blob_of(content_hash) == {b \in blobs : b.content_hash = content_hash}

\* a call of RulesEngine.evaluate_rule, as process_file makes it for each
\* rule: what it was given and how it ended
evaluate(rule, file_info) ==
    /\ ops < MaxRuleCalls
    /\ ops' = ops + 1
    /\ reply' = [op |-> "evaluate", rules |-> <<rule>>, file_info |-> file_info,
                 evaluation |-> evaluation_of(rule, file_info)]
    /\ UNCHANGED <<fs, blobs, assets, now, scanning, sc, session, sql, jobs, saved_views,
                   view_session, tags, file_tags, pages, rules_session>>

\* the value of the field extension for a path: what _get_field_value
\* returns to the rule engine, and what the store computes from the
\* expression parse_condition writes for the field
extension_values(path) ==
    /\ ops < MaxRuleCalls
    /\ ops' = ops + 1
    /\ LET row == [ProbeRow EXCEPT !.a.full_path = path]
           written == parse_condition(Condition("extension", "is_null", PyNone))
       IN reply' = [op |-> "extension", path |-> path,
                    engine |-> _get_field_value(FileInfo(row.a, row.b), "extension"),
                    compiler |-> extension_expr(lex(written), row)]
    /\ UNCHANGED <<fs, blobs, assets, now, scanning, sc, session, sql, jobs, saved_views,
                   view_session, tags, file_tags, pages, rules_session>>

\* POST /rules/validate
validate(rule) ==
    /\ ops < MaxRuleCalls
    /\ ops' = ops + 1
    /\ reply' = RuleReply("validate", IF validate_rule(rule) THEN "200" ELSE "400",
                          <<rule>>, << >>)
    /\ UNCHANGED <<fs, blobs, assets, now, scanning, sc, session, sql, jobs, saved_views,
                   view_session, tags, file_tags, pages, rules_session>>

\* POST /rules/test
test_rule(rule, file_info, faults) ==
    /\ ops < MaxRuleCalls
    /\ ops' = ops + 1
    /\ IF ~validate_rule(rule)
       THEN /\ reply' = RuleReply("test", "400", <<rule>>, << >>)
            /\ UNCHANGED <<fs, assets, tags, file_tags, rules_session>>
       ELSE LET p == process_file(engine_world(faults), file_info, <<rule>>)
            IN /\ left_by(p.w)
               /\ reply' = RuleReply("test", IF p.result.error THEN "500" ELSE "200",
                                     <<rule>>, <<p>>)
    /\ UNCHANGED <<blobs, now, scanning, sc, session, sql, jobs, saved_views, view_session, pages>>

\* POST /rules/process/{content_hash}
process_file_with_rules(content_hash, rules, faults) ==
    /\ ops < MaxRuleCalls
    /\ ops' = ops + 1
    /\ IF blob_of(content_hash) = {} \/ available_at(assets, content_hash) = {}
       THEN /\ reply' = RuleReply("process", "404", rules, << >>)
            /\ UNCHANGED <<fs, assets, tags, file_tags, rules_session>>
       ELSE \E k \in available_at(assets, content_hash), blob \in blob_of(content_hash) :
              LET p == process_file(engine_world(faults), FileInfo(assets[k], blob), rules)
              IN /\ left_by(p.w)
                 /\ reply' = RuleReply("process", "200", rules, <<p>>)
    /\ UNCHANGED <<blobs, now, scanning, sc, session, sql, jobs, saved_views, view_session, pages>>

\* the loop of batch_process_files from hash k on; the query for the asset
\* gives the row of the lowest id
RECURSIVE batch_from(_, _, _, _)
batch_from(content_hashes, k, rules, acc) ==
    IF k > Len(content_hashes) THEN acc
    ELSE LET rows == available_at(acc.w.assets, content_hashes[k])
             first == CHOOSE i \in rows : \A j \in rows : i <= j
             blob == CHOOSE b \in blob_of(content_hashes[k]) : TRUE
             p == process_file(acc.w, FileInfo(acc.w.assets[first], blob), rules)
         IN IF blob_of(content_hashes[k]) = {} \/ rows = {}
            THEN batch_from(content_hashes, k + 1, rules,
                     [acc EXCEPT !.results = Append(@, FALSE)])
            ELSE batch_from(content_hashes, k + 1, rules,
                     [w |-> p.w, runs |-> Append(acc.runs, p),
                      \* result['matched_rules'] raises KeyError on the dict of an error
                      results |-> Append(acc.results, ~p.result.error)])

\* POST /rules/batch-process
batch_process_files(content_hashes, rules, faults) ==
    /\ ops < MaxRuleCalls
    /\ ops' = ops + 1
    /\ LET done == batch_from(content_hashes, 1, rules,
                       [w |-> engine_world(faults), runs |-> << >>, results |-> << >>])
       IN /\ left_by(done.w)
          /\ reply' = RuleReply("batch", "200", rules, done.runs)
    /\ UNCHANGED <<blobs, now, scanning, sc, session, sql, jobs, saved_views, view_session, pages>>

(***************************************************************************)
(* SpecRules: calls of the rules router on a catalog of three files, two   *)
(* of the same bytes, with a directory to move files to.  The store may    *)
(* refuse one commit of a call (the database is locked by another writer). *)
(* SpecTags: the same calls on a store that refuses none.                  *)
(***************************************************************************)
archive == <<"archive">>
DirTarget == <<archive>>
FileTarget == <<archive, <<"m", ".", "txt">> >>

Large == Condition("size", "gt", PyInt(5))
Huge == Condition("size", "gt", PyInt(5000))
Colourless == Condition("colour", "is_null", PyNone)
Red == Action("add_tag", Args("red", << >>))
Blue == Action("add_tag", Args("blue", << >>))
Notify == Action("send_notification", Args("", << >>))
MoveTo(path) == Action("move_file", Args("", path))

Tagging == Rule("tag", Large, <<Red>>)
TaggingTwice == Rule("tag twice", Large, <<Red, Blue, Red>>)
Archiving == Rule("archive", Large, <<MoveTo(DirTarget), Red>>)
Renaming == Rule("rename", Large, <<MoveTo(FileTarget), Notify>>)
Never == Rule("huge", Huge, <<Blue>>)
Shredding == Rule("shred", Large, <<Action("shred", Args("", << >>)), Blue>>)
Nameless == Unnamed(Large, <<Blue>>)
Colour == Rule("colour", Colourless, <<Blue>>)
BareEntry == Rule("bare", Large, <<Notify, Bare("delete_file")>>)

Rules ==
    {Tagging, TaggingTwice, Archiving, Renaming, Never, Shredding, Nameless, Colour,
     BareEntry}

RuleLists ==
    {<<r>> : r \in Rules}
    \cup { <<Tagging, Tagging>>, <<Never, Tagging>>, <<Archiving, Tagging>>,
           <<Renaming, Archiving>>, <<BareEntry, Tagging>>, <<Shredding, Renaming>> }

TagRules == {Tagging, TaggingTwice, Never}
TagLists == {<<r>> : r \in TagRules} \cup {<<Tagging, Tagging>>, <<Never, Tagging>>}

RuleHashes == {_calculate_content_hash(cA), _calculate_content_hash(cC)}
HashLists ==
    { <<_calculate_content_hash(cA), _calculate_content_hash(cC)>>,
      <<_calculate_content_hash(cA), _calculate_content_hash(cA)>> }

FileInfos ==
    UNION {{FileInfo(assets[k], b) : b \in blob_of(assets[k].content_hash)} :
              k \in 1..Len(assets)}

InitRules ==
    /\ fs = FlatFs(File(cA), File(cA), File(cC)) @@ (<<archive>> :> Dir)
    /\ ops = 0
    /\ now = 2
    /\ scanning = [s \in Scanners |-> FALSE]
    /\ sc = [s \in Scanners |-> IdleFrame]
    /\ session = [s \in Scanners |-> EmptySession]
    /\ sql = NoSql
    /\ blobs = {StoredBlob(cA, 1), StoredBlob(cC, 2)}
    /\ assets = ExecAssets(0)
    /\ \/ tags = << >> /\ file_tags = << >>
       \/ tags = <<Tag("red")>> /\ file_tags \in {<< >>, <<FileTag(cA, 1)>>}
    /\ rules_session = "active"
    /\ jobs = << >>
    /\ saved_views = << >>
    /\ view_session = << >>
    /\ reply = NoReply
    /\ pages = << >>

NextRules ==
    \/ \E rule \in Rules, file_info \in FileInfos, faults \in 0..MaxFaults :
          test_rule(rule, file_info, faults)
    \/ \E h \in RuleHashes, rules \in RuleLists, faults \in 0..MaxFaults :
          process_file_with_rules(h, rules, faults)
    \/ \E hs \in HashLists, rules \in RuleLists, faults \in 0..MaxFaults :
          batch_process_files(hs, rules, faults)

SpecRules == InitRules /\ [][NextRules]_vars

NextTags ==
    \/ \E rule \in TagRules, file_info \in FileInfos : test_rule(rule, file_info, 0)
    \/ \E h \in RuleHashes, rules \in TagLists : process_file_with_rules(h, rules, 0)
    \/ \E hs \in HashLists, rules \in TagLists : batch_process_files(hs, rules, 0)

SpecTags == InitRules /\ [][NextTags]_vars

(***************************************************************************)
(* SpecDelete: rules that delete files, on the catalog of SpecRules and on *)
(* the catalog two scans leave when f1 was rewritten between them: the row *)
(* of the old bytes and the row of the new bytes both name f1.             *)
(***************************************************************************)
Delete == Action("delete_file", Args("", << >>))
Deleting == Rule("delete", Large, <<Delete>>)
DeletingTwice == Rule("delete twice", Large, <<Delete, Notify, Delete>>)
DeleteRules == {Deleting, DeletingTwice, Renaming, Never}
DeleteLists ==
    {<<r>> : r \in DeleteRules} \cup {<<Deleting, Deleting>>, <<Renaming, Deleting>>}

RewrittenFs == FlatFs(File(cC), File(cA), File(cC)) @@ (<<archive>> :> Dir)
RewrittenAssets ==
    ExecAssets(0) \o <<Asset(_calculate_content_hash(cC), f1, 2)>>

InitDelete ==
    /\ \/ fs = FlatFs(File(cA), File(cA), File(cC)) @@ (<<archive>> :> Dir)
          /\ assets = ExecAssets(0)
       \/ fs = RewrittenFs /\ assets = RewrittenAssets
    /\ ops = 0
    /\ now = 3
    /\ scanning = [s \in Scanners |-> FALSE]
    /\ sc = [s \in Scanners |-> IdleFrame]
    /\ session = [s \in Scanners |-> EmptySession]
    /\ sql = NoSql
    /\ blobs = {StoredBlob(cA, 1), StoredBlob(cC, 2)}
    /\ tags = << >>
    /\ file_tags = << >>
    /\ rules_session = "active"
    /\ jobs = << >>
    /\ saved_views = << >>
    /\ view_session = << >>
    /\ reply = NoReply
    /\ pages = << >>

NextDelete ==
    \/ \E rule \in DeleteRules, file_info \in FileInfos, faults \in 0..MaxFaults :
          test_rule(rule, file_info, faults)
    \/ \E h \in RuleHashes, rules \in DeleteLists, faults \in 0..MaxFaults :
          process_file_with_rules(h, rules, faults)
    \/ \E hs \in HashLists, rules \in DeleteLists, faults \in 0..MaxFaults :
          batch_process_files(hs, rules, faults)

SpecDelete == InitDelete /\ [][NextDelete]_vars

(***************************************************************************)
(* SpecValidate: rules with and without each of their keys, conditions     *)
(* alone and under each combinator, known and unknown names, handed to     *)
(* the validate endpoint.                                                  *)
(***************************************************************************)
Like == Condition("size", "like", PyInt(5))
Fieldless == [op |-> "gt", value |-> PyInt(5)]
Opless == [field |-> "size", value |-> PyInt(5)]
Shred == Action("shred", Args("", << >>))

ValidateWhens ==
    { Large, Colourless, Like, Fieldless, Opless, EmptyDict,
      AllOf(<< >>), AllOf(<<Large, Huge>>), AllOf(<<Large, Colourless>>), AllOf(<<AnyOf(<<Large>>)>>),
      AnyOf(<<Large>>), AnyOf(<<Large, Like>>), NotOf(Large), NotOf(Colourless), NotOf(Like) }
ValidateThens == { << >>, <<Red>>, <<Red, Shred>>, <<Notify, Delete>>, <<Bare("add_tag")>> }
ValidateRules ==
    { [Rule("r", x[2], x[3]) EXCEPT !.keys = x[1]] :
        x \in (SUBSET {"name", "when", "then"}) \X ValidateWhens \X ValidateThens }

(***************************************************************************)
(* SpecEvaluate: evaluate_rule on conditions alone and on lists of up to   *)
(* MaxConditions conditions under all and any, for the files of the        *)
(* catalog.  Large holds for the files of 2048 bytes, Small for the file   *)
(* of one byte; Like cannot be evaluated and counts as false.             *)
(***************************************************************************)
MaxConditions == 3
Small == Condition("size", "lt", PyInt(5))
EvaluateConditions == {Large, Small, Like}
ConditionLists ==
    UNION {[1..n -> EvaluateConditions] : n \in 0..MaxConditions}
EvaluateRules ==
    {Rule("r", when, <<Notify>>) :
        when \in EvaluateConditions
                 \cup {NotOf(c) : c \in EvaluateConditions}
                 \cup {AllOf(l) : l \in ConditionLists}
                 \cup {AnyOf(l) : l \in ConditionLists}}

NextEvaluate == \E rule \in EvaluateRules, file_info \in FileInfos : evaluate(rule, file_info)

SpecEvaluate == InitRules /\ [][NextEvaluate]_vars

(***************************************************************************)
(* SpecGrammar: one condition tree stored as view 1 and executed, and the  *)
(* same tree evaluated by the rule engine as the "when" of a rule, for the *)
(* records of the catalogs of SpecExec.                                    *)
(***************************************************************************)
\* the JSON tree of a view as the dict the rule engine reads
when_of(query_ast) ==
    CASE query_ast.comb = "all" -> AllOf(query_ast.conds)
      [] query_ast.comb = "any" -> AnyOf(query_ast.conds)
      [] query_ast.comb = "not" -> NotOf(query_ast.conds[1])
      [] OTHER -> query_ast.conds[1]

GrammarConds ==
    { Large, Small, TagIs(1),
      Condition("name", "eq", PyStr(f1[Len(f1)])),
      Condition("path", "eq", PyStr(path_text(f1))),
      Condition("extension", "eq", PyStr(<<"txt">>)),
      Condition("type", "is_null", PyNone),
      Condition("type", "ne", PyStr(<<"a">>)),
      Condition("name", "contains", PyStr(<<"f1">>)),
      Condition("name", "like", PyStr(<<"f1">>)),
      Condition("tag", "is_null", PyNone) }

InitGrammar ==
    /\ ExecCatalog
    /\ \E comb \in {"cond", "not", "all", "any"}, c \in GrammarConds :
          saved_views = <<SavedView("v", Ast(comb, c), NoLayout)>>

NextGrammar ==
    \/ execute_savedview(1, Limit, 0)
    \/ \E file_info \in FileInfos :
          evaluate(Rule("v", when_of(saved_views[1].query_ast_json), << >>), file_info)

SpecGrammar == InitGrammar /\ [][NextGrammar]_vars

(***************************************************************************)
(* SpecUnevaluable: the calls of the rules router with rules of one        *)
(* condition, placed directly or under "not": an unknown operator, no      *)
(* field, a field the record does not have, a number ordered against a     *)
(* string, and two conditions that evaluate.                               *)
(***************************************************************************)
Worded == Condition("size", "gt", PyStr(<<"big">>))
Unset == Condition("colour", "gt", PyInt(5))
OnlyConditions == {Like, Fieldless, Worded, Unset, Large, Huge}
UnevaluableRules ==
    {Rule("direct", c, <<Blue>>) : c \in OnlyConditions}
    \cup {Rule("negated", NotOf(c), <<Blue>>) : c \in OnlyConditions}
UnevaluableLists ==
    {<<r>> : r \in UnevaluableRules}
    \cup {<<Rule("direct", c, <<Blue>>), Rule("negated", NotOf(c), <<Red>>)>> :
             c \in OnlyConditions}

NextUnevaluable ==
    \/ \E rule \in UnevaluableRules, file_info \in FileInfos : test_rule(rule, file_info, 0)
    \/ \E h \in RuleHashes, rules \in UnevaluableLists : process_file_with_rules(h, rules, 0)
    \/ \E hs \in HashLists, rules \in UnevaluableLists : batch_process_files(hs, rules, 0)

SpecUnevaluable == InitRules /\ [][NextUnevaluable]_vars

(***************************************************************************)
(* SpecAvailability: a catalog of three available assets and one stored    *)
(* view; a rule deletes files, another program writes deleted files back,  *)
(* a scanner scans them again, and the view is executed.                   *)
(***************************************************************************)
AvailabilityViews ==
    { Ast("cond", Large), Ast("not", Large),
      Ast("cond", [field |-> "name", op |-> "eq", value |-> PyStr(Breakout)]) }

InitAvailability ==
    /\ fs = FlatFs(File(cA), File(cA), File(cC))
    /\ ops = 0
    /\ now = 0
    /\ scanning = [s \in Scanners |-> FALSE]
    /\ sc = [s \in Scanners |-> IdleFrame]
    /\ session = [s \in Scanners |-> EmptySession]
    /\ sql = NoSql
    /\ blobs = {StoredBlob(cA, 1), StoredBlob(cC, 2)}
    /\ assets = ExecAssets(0)
    /\ tags = << >>
    /\ file_tags = << >>
    /\ rules_session = "active"
    /\ jobs = << >>
    /\ \E ast \in AvailabilityViews : saved_views = <<SavedView("v", ast, NoLayout)>>
    /\ view_session = << >>
    /\ reply = NoReply
    /\ pages = << >>

\* a program other than the catalog writes a removed file again, with the
\* bytes it had
PutBack(path) ==
    /\ ~exists(fs, path)
    /\ fs' = [fs EXCEPT ![path] = FlatFs(File(cA), File(cA), File(cC))[path]]
    /\ UNCHANGED <<ops, blobs, assets, now, scanning, sc, session, sql, service_vars>>

NextAvailability ==
    \/ \E h \in RuleHashes : process_file_with_rules(h, <<Deleting>>, 0)
    \/ \E path \in FlatFiles : PutBack(path)
    \/ \E root \in FlatRoots : ScanStart("s1", root)
    \/ WalkStep("s1")
    \/ SaveBlobStep("s1")
    \/ SaveAssetStep("s1")
    \/ Commit("s1")
    \/ execute_savedview(1, Limit, 0)

SpecAvailability == InitAvailability /\ [][NextAvailability]_vars

(***************************************************************************)
(* Scan jobs: start_scan creates a Job row and queues execute_scan_job as  *)
(* a background task.  The task has no await: the event loop runs one      *)
(* task at a time, each to its end.  pc is the place of the task of the    *)
(* job: "queued" before it began, "scan" between start_job and the return  *)
(* of scan_path, "done" when it has returned.                              *)
(***************************************************************************)
MaxJobs == 2
max_attempts == 3

Job(path) == [status |-> "pending", attempts |-> 0, path |-> path, pc |-> "queued"]

\* the commit of a Job whose updated_at was assigned time.time(): the
\* DateTime column binds datetime objects only, the flush raises and the
\* except branch rolls the change back
job_commit_ok == DateTime_bind_ok(time_time)

\* JobService.start_job
start_job(job) ==
    IF job.status # "pending" THEN job
    ELSE IF job_commit_ok THEN [job EXCEPT !.status = "running"]
    ELSE job

\* JobService.complete_job
complete_job(job) ==
    IF job.status # "running" THEN job
    ELSE IF job_commit_ok THEN [job EXCEPT !.status = "completed"]
    ELSE job

\* JobService.fail_job
fail_job(job) ==
    IF job_commit_ok
    THEN [job EXCEPT !.attempts = @ + 1,
                     !.status = IF job.attempts + 1 >= max_attempts THEN "failed"
                                ELSE "pending"]
    ELSE job

\* POST /files/scan
start_scan(path) ==
    /\ Len(jobs) < MaxJobs
    /\ jobs' = Append(jobs, Job(path))
    /\ UNCHANGED <<fs, ops, blobs, assets, now, scanning, sc, session, sql, saved_views,
                   view_session, reply, tags, file_tags, pages, rules_session>>

\* execute_scan_job: the task of job j begins with start_job, whose
\* return value it does not read
StartStep(j) ==
    /\ jobs[j].pc = "queued"
    /\ \A k \in 1..Len(jobs) : jobs[k].pc # "scan"
    /\ jobs' = [jobs EXCEPT ![j] = [start_job(@) EXCEPT !.pc = "scan"]]
    /\ UNCHANGED <<fs, ops, blobs, assets, now, scanning, sc, session, sql, saved_views,
                   view_session, reply, tags, file_tags, pages, rules_session>>

\* execute_scan_job: scanner.scan_path(path) of the module's scanner
ScanStep(j) ==
    /\ jobs[j].pc = "scan"
    /\ sc["s1"] = IdleFrame
    /\ ScanStart("s1", jobs[j].path)

\* execute_scan_job: scan_path returned, complete_job
CompleteStep(j) ==
    /\ jobs[j].pc = "scan"
    /\ sc["s1"].pc = "idle"
    /\ sc["s1"].ret \notin {NoRet, Raised}
    /\ jobs' = [jobs EXCEPT ![j] = [complete_job(@) EXCEPT !.pc = "done"]]
    /\ sc' = [sc EXCEPT !["s1"] = IdleFrame]
    /\ UNCHANGED <<fs, ops, blobs, assets, now, scanning, session, sql, saved_views,
                   view_session, reply, tags, file_tags, pages, rules_session>>

\* execute_scan_job: scan_path raised, fail_job
FailStep(j) ==
    /\ jobs[j].pc = "scan"
    /\ sc["s1"].ret = Raised
    /\ jobs' = [jobs EXCEPT ![j] = [fail_job(@) EXCEPT !.pc = "done"]]
    /\ sc' = [sc EXCEPT !["s1"] = IdleFrame]
    /\ UNCHANGED <<fs, ops, blobs, assets, now, scanning, session, sql, saved_views,
                   view_session, reply, tags, file_tags, pages, rules_session>>

(***************************************************************************)
(* SpecJobs: scan jobs for a directory, two of its files and a path that   *)
(* does not exist, on an empty catalog.  FairSpecJobs: the same, where a   *)
(* task that was queued runs and a task that can take a step takes it.     *)
(***************************************************************************)
InitJobs ==
    /\ fs = FlatFs(File(cA), Absent, File(cC))
    /\ InitStore
    /\ sql = NoSql

TaskSteps ==
    \/ \E j \in 1..Len(jobs) : StartStep(j)
    \/ \E j \in 1..Len(jobs) : ScanStep(j)
    \/ WalkStep("s1")
    \/ SaveBlobStep("s1")
    \/ SaveAssetStep("s1")
    \/ Commit("s1")
    \/ \E j \in 1..Len(jobs) : CompleteStep(j)
    \/ \E j \in 1..Len(jobs) : FailStep(j)

NextJobs ==
    \/ \E path \in FlatRoots : start_scan(path)
    \/ TaskSteps

SpecJobs == InitJobs /\ [][NextJobs]_vars

FairSpecJobs == SpecJobs /\ WF_vars(TaskSteps)

(***************************************************************************)
(* SpecExtension: the field extension of paths whose names have no dot,    *)
(* one dot, several dots, a leading or a trailing dot, capitals, in        *)
(* directories with and without a dot.                                     *)
(***************************************************************************)
ExtensionDirs == { <<"data">>, <<"Temp">>, <<"v1", ".", "2">> }
ExtensionStems == { <<"a">>, <<"LOG">>, <<"x", ".", "tar">>, << >> }
ExtensionEnds == { << >>, <<".", "txt">>, <<".", "LOG">>, <<".", "gz">>, <<".">> }
ExtensionPaths ==
    { <<x[1], x[2] \o x[3]>> :
        x \in {y \in ExtensionDirs \X ExtensionStems \X ExtensionEnds : y[2] \o y[3] # << >>} }

NextExtension == \E path \in ExtensionPaths : extension_values(path)

SpecExtension == InitRules /\ [][NextExtension]_vars

NextValidate == \E rule \in ValidateRules : validate(rule)

SpecValidate == InitRules /\ [][NextValidate]_vars

(***************************************************************************)
(* Properties of the scanner and the catalog.                              *)
(***************************************************************************)
\* scanner s returns from scan_path in this step
Returns(s) == sc[s].pc = "commit" /\ sc'[s].pc = "idle"

\* no other scan ran during the scan of s and no file was touched
Undisturbed(s) == ~sc[s].overlapped /\ ops = 0

\* the bytes of the file a path leads to
bytes_at(f, path) == f[resolve(f, path)].content

\* the rows of a table for a content hash and a path
rows_of(tbl, h, path) ==
    {k \in 1..Len(tbl) : tbl[k].content_hash = h /\ tbl[k].full_path = path}

paths_of(results) == {results[i].file_path : i \in 1..Len(results)}

\* C1: when a scan returns, two distinct scanned paths that hold the same
\* bytes have exactly one Blob with the hash of these bytes and exactly one
\* Asset each, also when the scan is the first to see both.
C1_OneBlobTwoAssets ==
    [][\A s \in Scanners : (Returns(s) /\ Undisturbed(s)) =>
         \A p, q \in paths_of(sc[s].results) :
            (/\ p # q
             /\ is_file(fs, p) /\ is_file(fs, q)
             /\ bytes_at(fs, p) = bytes_at(fs, q))
            => LET h == _calculate_content_hash(bytes_at(fs, p))
               IN /\ Cardinality({b \in blobs' : b.content_hash = h}) = 1
                  /\ Cardinality(rows_of(assets', h, p)) = 1
                  /\ Cardinality(rows_of(assets', h, q)) = 1]_vars

\* the results a step of scanner s adds to its scan
added_results(s) ==
    IF sc[s].pc = "idle" /\ sc'[s].pc # "idle"
    THEN paths_of(sc'[s].results)
    ELSE IF sc[s].pc = "walk"
         THEN {sc'[s].results[i].file_path :
                 i \in (Len(sc[s].results) + 1)..Len(sc'[s].results)}
         ELSE {}

\* C2: the content_hash the scanner records for a path is the SHA-256 of
\* the bytes at that path when it is scanned, also when a Blob of other
\* bytes has the same fast_hash.
C2_HashOfTheBytes ==
    [][\A s \in Scanners :
         \A i \in 1..Len(sc'[s].results) :
            sc'[s].results[i].file_path \in added_results(s)
            => sc'[s].results[i].content_hash
                 = _calculate_content_hash(bytes_at(fs, sc'[s].results[i].file_path))]_vars

\* C3: every Asset's content_hash is the key of a Blob, and every Blob is
\* referenced by an Asset, in every committed state of the catalog.
C3_NoDanglingRows ==
    /\ \A k \in 1..Len(assets) : \E b \in blobs : b.content_hash = assets[k].content_hash
    /\ \A b \in blobs : \E k \in 1..Len(assets) : assets[k].content_hash = b.content_hash

\* scans and a rule action have acted: several Blobs, an Asset marked
\* unavailable or moved, rows of two scans
C3_Witness ==
    /\ Cardinality(blobs) >= 2
    /\ Len(assets) >= 3
    /\ ops > 0
    /\ \E k \in 1..Len(assets) : ~assets[k].is_available

\* two scans overlapped and both have returned
BothReturned(s, t) ==
    /\ s # t
    /\ sc[s].pc = "idle" /\ sc[t].pc = "idle"
    /\ sc[s].overlapped /\ sc[t].overlapped
    /\ sc[s].ret.success /\ sc[t].ret.success

no_twins(results) ==
    \A i, j \in 1..Len(results) :
        i # j => results[i].content_hash # results[j].content_hash

\* C4: when two scans with sessions of their own interleave on files of the
\* same content_hash (no file being changed meanwhile, no scan holding the
\* same bytes twice), then once both have returned every file either scan
\* found has exactly one Blob and exactly one Asset.
C4_NoLostScan ==
    \A s, t \in Scanners :
        (/\ BothReturned(s, t)
         /\ ops = 0
         /\ no_twins(sc[s].results) /\ no_twins(sc[t].results)
         /\ \E i \in 1..Len(sc[s].results), j \in 1..Len(sc[t].results) :
               sc[s].results[i].content_hash = sc[t].results[j].content_hash)
        => \A i \in 1..Len(sc[s].results) :
              LET r == sc[s].results[i]
              IN /\ Cardinality({b \in blobs : b.content_hash = r.content_hash}) = 1
                 /\ Cardinality(rows_of(assets, r.content_hash, r.file_path)) = 1

\* the result cannot be persisted: its Blob collides on the primary key, or
\* the refresh of its Asset does not bind
cannot_persist(s, r) ==
    \/ /\ \E i \in 1..Len(session[s].new_blobs) :
             session[s].new_blobs[i].content_hash = r.content_hash
       /\ pk_conflict(blobs, session[s].new_blobs)
       /\ \/ \E b \in blobs : b.content_hash = r.content_hash
          \/ \E i, j \in 1..Len(session[s].new_blobs) :
                /\ i # j
                /\ session[s].new_blobs[i].content_hash = r.content_hash
                /\ session[s].new_blobs[j].content_hash = r.content_hash
    \/ \E d \in session[s].dirty :
          /\ d.id \in rows_of(assets, r.content_hash, r.file_path)
          /\ ~DateTime_bind_ok(d.value)

\* C5: when a scan returns, every file it found that can itself be
\* persisted is in the catalog, whatever happened to the other files, and
\* the scan returns its summary.
C5_OthersRecorded ==
    [][\A s \in Scanners : (Returns(s) /\ Undisturbed(s)) =>
         /\ sc'[s].ret.success
         /\ \A i \in 1..Len(sc[s].results) :
               ~cannot_persist(s, sc[s].results[i])
               => rows_of(assets', sc[s].results[i].content_hash,
                          sc[s].results[i].file_path) # {}]_vars

\* every file of the scan is already in the catalog
AllKnown(s) ==
    /\ sc[s].results # << >>
    /\ \A i \in 1..Len(sc[s].results) :
          rows_of(assets, sc[s].results[i].content_hash,
                  sc[s].results[i].file_path) # {}

\* C6: a scan that finds only files the catalog already has creates no
\* Blob and no Asset, returns files_saved = 0, and leaves an Asset with
\* last_seen at the time of this scan for each of them.
C6_RescanRefreshes ==
    [][\A s \in Scanners : (Returns(s) /\ AllKnown(s) /\ Undisturbed(s)) =>
         /\ blobs' = blobs
         /\ Len(assets') = Len(assets)
         /\ sc'[s].ret.files_saved = 0
         /\ \A i \in 1..Len(sc[s].results) :
               \E k \in rows_of(assets', sc[s].results[i].content_hash,
                                sc[s].results[i].file_path) :
                  assets'[k].last_seen = now]_vars

\* C7: once stop_scan has been called during the walk, no further file is
\* added to the results of the scan.
C7_StopStopsTheWalk ==
    [][\A s \in Scanners :
         (sc[s].pc = "walk" /\ ~scanning[s]) => sc'[s].results = sc[s].results]_vars

\* a component of the path is a symbolic link
RECURSIVE through_link(_, _, _)
through_link(f, cur, rest) ==
    IF rest = << >> THEN FALSE
    ELSE LET cand == Append(cur, Head(rest))
         IN IF cand \notin DOMAIN f THEN FALSE
            ELSE IF f[cand].kind = "link" THEN TRUE
            ELSE through_link(f, cand, Tail(rest))

\* C8: no file of a scan is reached through a symbolic link.
C8_NoSymlinkFollowed ==
    \A s \in Scanners :
        \A p \in paths_of(sc[s].results) : ~through_link(fs, << >>, p)

\* the regular files under root with no deny-listed directory name between
\* the root and the file and no deny-listed extension
qualifying(f, root) ==
    {p \in DOMAIN f :
        /\ Len(p) > Len(root)
        /\ SubSeq(p, 1, Len(root)) = root
        /\ f[p].kind = "file"
        /\ ~through_link(f, << >>, p)
        /\ \A k \in (Len(root) + 1)..(Len(p) - 1) : p[k] \notin blacklist_dirs
        /\ suffix_lower(p[Len(p)]) \notin blacklist_extensions}

\* C9: the files a scan of a directory reports are exactly the qualifying
\* regular files under its root.
C9_ReportsQualifying ==
    \A s \in Scanners :
        (sc[s].pc \in {"save", "save_asset", "commit"} /\ is_dir(fs, sc[s].root))
        => paths_of(sc[s].results) = qualifying(fs, sc[s].root)

\* C10: two ASTs that differ in condition values only are executed as the
\* same statement: the value changes no column, operator or combinator and
\* adds or removes no condition.
C10_ValuesAreData ==
    (sql # NoSql /\ sql.compiled) => statement_of(sql.q1, FALSE) = statement_of(sql.q2, FALSE)

(***************************************************************************)
(* Properties of the SavedView store.                                      *)
(***************************************************************************)
in_vocabulary(query_ast) ==
    \A k \in 1..Len(query_ast.conds) :
        /\ query_ast.conds[k].field \in known_fields
        /\ query_ast.conds[k].op \in known_operators

\* C11: a stored AST compiles and is made of the known fields and operators:
\* create_savedview and update_savedview reject every other AST and leave
\* the table as it was.
C11_OnlyKnownVocabularyStored ==
    \A id \in DOMAIN saved_views :
        /\ parse_query_ast(saved_views[id].query_ast_json) # << >>
        /\ in_vocabulary(saved_views[id].query_ast_json)

\* C12: what a rejected update carried never reaches the table: a stored
\* row changes its name only in a successful update that gives that name,
\* and a call that returns an error changes no row.
C12_RejectedUpdateLeavesNoTrace ==
    [][/\ reply'.status = "error" => saved_views' = saved_views
       /\ \A id \in DOMAIN saved_views \cap DOMAIN saved_views' :
            saved_views'[id].name # saved_views[id].name
            => reply' = Reply("update", id, saved_views'[id].name, "success")]_vars

(***************************************************************************)
(* Properties of the execution of views.                                   *)
(***************************************************************************)
answered(call) == call \in DOMAIN pages /\ ~pages[call].error
files_of(call) == {pages[call].files[i] : i \in 1..Len(pages[call].files)}
available_rows == {selected(row) : row \in {x \in joined(assets, blobs, file_tags) : x.a.is_available}}
\* no value of the view carries a quote (the case of C10)
plain_values(id) ==
    \A k \in 1..Len(saved_views[id].query_ast_json.conds) :
        \A i \in 1..Len(fmt(saved_views[id].query_ast_json.conds[k].value)) :
            fmt(saved_views[id].query_ast_json.conds[k].value)[i] # "'"

\* C13: a view {all: [c1, c2]} returns the rows that both c1 alone and c2
\* alone return, {any: [c1, c2]} the rows that one of them returns, and
\* {not: c1} the available rows that c1 alone does not return.
C13_CombinatorsAreSetOperations ==
    LET comb == saved_views[1].query_ast_json.comb
        whole == <<1, Limit, 0>>
        first == <<2, Limit, 0>>
        second == <<3, Limit, 0>>
    IN (pages # << >> /\ plain_values(1) /\ answered(whole) /\ answered(first)
          /\ (comb = "not" \/ answered(second)))
       => CASE comb = "all" -> files_of(whole) = files_of(first) \cap files_of(second)
            [] comb = "any" -> files_of(whole) = files_of(first) \cup files_of(second)
            [] OTHER -> files_of(whole) = available_rows \ files_of(first)

RuleOps == {"test", "process", "batch"}

\* the actions of the rules that match, in rule order then action order
RECURSIVE expected_actions(_, _, _)
expected_actions(rules, r, file_info) ==
    IF r > Len(rules) THEN << >>
    ELSE (IF evaluate_rule(rules[r], file_info) /\ "then" \in rules[r].keys
          THEN [k \in 1..Len(rules[r].then) |->
                   [rule |-> r, k |-> k, action |-> rules[r].then[k].action]]
          ELSE << >>)
         \o expected_actions(rules, r + 1, file_info)

\* C17: process_file returns a result list with one entry for each action of
\* each rule that matches, in rule order then action order, whatever
\* failed before, and matched_rules is the number of rules that match.
C17_EveryMatchingRuleRuns ==
    reply.op \in RuleOps
    => \A n \in 1..Len(reply.runs) :
          LET p == reply.runs[n]
              expected == expected_actions(reply.rules, 1, p.file_info)
          IN /\ p.result.success
             /\ [i \in 1..Len(p.result.results) |->
                    [rule |-> p.result.results[i].rule, k |-> p.result.results[i].k,
                     action |-> p.result.results[i].action]] = expected
             /\ p.executed = p.result.results
             /\ p.result.matched_rules =
                    Cardinality({r \in 1..Len(reply.rules) :
                                    evaluate_rule(reply.rules[r], p.file_info)})

\* C18: a handler ran for a rule of the request only if the rule passes
\* validate_rule, whichever entry point took the request.
C18_InvalidRulesNeverRun ==
    reply.op \in RuleOps
    => \A n \in 1..Len(reply.runs) :
          \A i \in 1..Len(reply.runs[n].executed) :
              reply.runs[n].executed[i].action \in action_handlers
              => validate_rule(reply.rules[reply.runs[n].executed[i].rule])

\* the rows of file_tags that attach the tag of this name to the hash
attached(content_hash, name) ==
    {i \in 1..Len(file_tags) :
        /\ file_tags[i].content_hash = content_hash
        /\ file_tags[i].tag_id \in DOMAIN tags
        /\ tags[file_tags[i].tag_id].name = name}

\* C19: however often add_tag was applied, no two FileTag rows have the same
\* content_hash and tag, no two Tag rows the same name, and every add_tag
\* of the last call reported success and left exactly one FileTag row of
\* its tag for its record.
C19_AddTagIdempotent ==
    /\ \A i, j \in 1..Len(file_tags) : i # j => file_tags[i] # file_tags[j]
    /\ \A i, j \in 1..Len(tags) : i # j => tags[i].name # tags[j].name
    /\ reply.op \in RuleOps
       => \A n \in 1..Len(reply.runs) :
             \A i \in 1..Len(reply.runs[n].executed) :
                 LET e == reply.runs[n].executed[i]
                 IN e.action = "add_tag"
                    => /\ e.success
                       /\ Cardinality(attached(reply.runs[n].file_info.content_hash,
                                               reply.rules[e.rule].then[e.k].args.name)) = 1

\* a call applied add_tag with one name to one record more than once
C19_AppliedAgain ==
    /\ reply.op \in RuleOps
    /\ ops = MaxRuleCalls
    /\ \E n \in 1..Len(reply.runs) :
          \E i, j \in 1..Len(reply.runs[n].executed) :
              /\ i < j
              /\ reply.runs[n].executed[i].action = "add_tag"
              /\ reply.runs[n].executed[j].action = "add_tag"
              /\ reply.rules[reply.runs[n].executed[i].rule].then[reply.runs[n].executed[i].k]
                   = reply.rules[reply.runs[n].executed[j].rule].then[reply.runs[n].executed[j].k]
    /\ Len(file_tags) >= 2

\* C20: the committed catalog names, for every available asset, a path at
\* which a file is: after a move_file, failed or not, the path of the row
\* is where the file is.
C20_CatalogPathIsLocation ==
    \A k \in 1..Len(assets) : assets[k].is_available => is_file(fs, assets[k].full_path)

\* the path deleted by the last action of the last call, if that was a
\* delete_file that reported success
deleted_paths ==
    IF reply.op \notin RuleOps \/ reply.runs = << >> THEN {}
    ELSE LET p == reply.runs[Len(reply.runs)]
         IN IF /\ p.executed # << >>
               /\ p.executed[Len(p.executed)].action = "delete_file"
               /\ p.executed[Len(p.executed)].success
            THEN {p.file_info.full_path}
            ELSE {}

\* C21: a call of the rules router deletes no Blob; when its last action
\* was a delete_file that reported success, no available Asset names the
\* deleted path; a call that left the files as they were leaves the
\* is_available of every Asset as it was.
C21_DeleteMarksUnavailable ==
    [][reply'.op \in RuleOps
       => (/\ blobs' = blobs
           /\ \A k \in 1..Len(assets') :
                 assets'[k].is_available => assets'[k].full_path \notin deleted_paths'
           /\ (fs' = fs)
              => \A k \in 1..Len(assets) :
                    assets'[k].is_available = assets[k].is_available)]_vars

\* the conditions of a "when": the members of the list of all or any, the
\* condition under not, or the dict itself
conditions_in(when) ==
    CASE "all" \in DOMAIN when -> {when.all[k] : k \in 1..Len(when.all)}
      [] "any" \in DOMAIN when -> {when.any[k] : k \in 1..Len(when.any)}
      [] "not" \in DOMAIN when -> {when.not}
      [] OTHER -> {when}

known_actions(then) ==
    \A k \in 1..Len(then) : then[k].t = "dict" /\ then[k].action \in action_handlers

\* C22 as stated: a rule is reported valid exactly when it has name, when
\* and then, every condition names a known field and every action a known
\* action.
C22_ValidIffFieldsAndActionsKnown ==
    reply.op = "validate"
    => LET rule == reply.rules[1]
       IN (reply.http = "200")
          <=> /\ {"name", "when", "then"} \subseteq rule.keys
              /\ \A c \in conditions_in(rule.when) : field_of(c) \in field_types
              /\ known_actions(rule.then)

\* C22 amended: a rule is reported valid exactly when it has name, when and
\* then, every condition names a known field and a known operator and
\* every action a known action; the catalog is as it was.
C22_ValidIffVocabularyKnown ==
    reply.op = "validate"
    => LET rule == reply.rules[1]
       IN /\ (reply.http = "200")
             <=> /\ {"name", "when", "then"} \subseteq rule.keys
                 /\ \A c \in conditions_in(rule.when) :
                       /\ field_of(c) \in field_types
                       /\ op_of(c, "") \in condition_operators
                 /\ known_actions(rule.then)
          /\ "when" \notin rule.keys => reply.http = "400"
          /\ ~known_actions(rule.then) => reply.http = "400"
          /\ assets = ExecAssets(0) /\ tags \in {<< >>, <<Tag("red")>>}
          /\ Len(file_tags) <= 1 /\ rules_session = "active"

\* a rule with every key, known fields and known actions was reported
\* invalid for its operator
C22_RejectedForOperator ==
    /\ reply.op = "validate"
    /\ reply.http = "400"
    /\ {"name", "when", "then"} \subseteq reply.rules[1].keys
    /\ \A c \in conditions_in(reply.rules[1].when) : field_of(c) \in field_types
    /\ known_actions(reply.rules[1].then)
    /\ reply.rules[1].then # << >>

\* the place of the first condition of the list that is (value = TRUE) or
\* is not (value = FALSE) satisfied, the length of the list if there is none
deciding(conditions, file_info, value) ==
    LET at == {k \in 1..Len(conditions) :
                  evaluate_condition(conditions[k], file_info) = value}
    IN IF at = {} THEN Len(conditions) ELSE CHOOSE k \in at : \A j \in at : k <= j

\* C23: evaluate_rule gives the conjunction for all, the disjunction for
\* any, the negation for not, and evaluates the conditions up to the first
\* false one of all and the first true one of any, and none after it.
C23_CombinatorsShortCircuit ==
    reply.op = "evaluate"
    => LET when == reply.rules[1].when
           file_info == reply.file_info
       IN CASE "all" \in DOMAIN when ->
                 /\ reply.evaluation.value
                       = \A k \in 1..Len(when.all) : evaluate_condition(when.all[k], file_info)
                 /\ reply.evaluation.evaluated = deciding(when.all, file_info, FALSE)
            [] "any" \in DOMAIN when ->
                 /\ reply.evaluation.value
                       = \E k \in 1..Len(when.any) : evaluate_condition(when.any[k], file_info)
                 /\ reply.evaluation.evaluated = deciding(when.any, file_info, TRUE)
            [] "not" \in DOMAIN when ->
                 /\ reply.evaluation.value = ~evaluate_condition(when.not, file_info)
                 /\ reply.evaluation.evaluated = 1
            [] OTHER ->
                 /\ reply.evaluation.value = evaluate_condition(when, file_info)
                 /\ reply.evaluation.evaluated = 1

\* an all stopped at a false condition that is not its last, and an any
\* was evaluated to its end without a true one
C23_StoppedEarly ==
    /\ reply.op = "evaluate"
    /\ "all" \in DOMAIN reply.rules[1].when
    /\ Len(reply.rules[1].when.all) = MaxConditions
    /\ reply.evaluation.evaluated = 2
    /\ ~reply.evaluation.value

\* C24: for a tree that is both the "when" of a rule and the query of a
\* view, and a record of an available Asset, evaluate_rule is true exactly
\* when the executed view has the record among its rows.
C24_EngineAgreesWithView ==
    LET whole == <<1, Limit, 0>>
    IN (/\ reply.op = "evaluate"
        /\ answered(whole)
        /\ \E k \in 1..Len(assets) :
              /\ assets[k].is_available
              /\ assets[k].full_path = reply.file_info.full_path
              /\ assets[k].content_hash = reply.file_info.content_hash)
       => (reply.evaluation.value
           <=> \E row \in files_of(whole) :
                 /\ row.full_path = reply.file_info.full_path
                 /\ row.content_hash = reply.file_info.content_hash)

\* the lowercase text after the last "." of a text
after_last_dot(text) ==
    LET i == rfind_dot(text, Len(text))
    IN [k \in 1..(Len(text) - i) |-> lower(text[i + k])]

\* C25: for a path with a dot, the extension of the rule engine and the
\* extension of the query compiler are both the lowercase text after the
\* last dot of the path, without the dot.
C25_ExtensionAfterLastDot ==
    (reply.op = "extension" /\ rfind_dot(path_text(reply.path), Len(path_text(reply.path))) > 0)
    => /\ reply.engine = PyStr(after_last_dot(path_text(reply.path)))
       /\ reply.compiler.k = "text"
       /\ reply.compiler.v = after_last_dot(path_text(reply.path))

\* C26: when scan_path returns, files_saved is the number of Asset rows
\* its commit added to the catalog (0 when the save was rolled back) and is
\* at most files_found.
C26_FilesSavedCountsAddedRows ==
    [][\A s \in Scanners : Returns(s) =>
         /\ sc'[s].ret.files_saved = Len(assets') - Len(assets)
         /\ sc'[s].ret.files_saved <= sc'[s].ret.files_found]_vars

\* the part of C26 that the code keeps
C26_SavedAtMostFound ==
    [][\A s \in Scanners : Returns(s) =>
         sc'[s].ret.files_saved <= sc'[s].ret.files_found]_vars

\* the types Python orders against each other without raising
ordered_types == {"int", "str", "datetime", "list"}

\* evaluate_condition cannot evaluate the condition against the record: it
\* has no field, an operator that is not known, or an ordering of two
\* values Python does not order (None, or values of two types)
unevaluable(condition, file_info) ==
    \/ field_of(condition) = ""
    \/ op_of(condition, "eq") \notin condition_operators
    \/ /\ op_of(condition, "eq") \in {"gt", "gte", "lt", "lte"}
       /\ LET field_value == _get_field_value(file_info, field_of(condition))
          IN \/ field_value.t # value_of(condition).t
             \/ field_value.t \notin ordered_types

\* the rule has one condition, directly in "when" or under "not", and the
\* condition is unevaluable
only_unevaluable(rule, file_info) ==
    /\ "when" \in rule.keys
    /\ IF "not" \in DOMAIN rule.when THEN unevaluable(rule.when.not, file_info)
       ELSE /\ DOMAIN rule.when \cap {"all", "any"} = {}
            /\ unevaluable(rule.when, file_info)

\* C27: no action runs for a rule whose only condition, direct or under
\* "not", cannot be evaluated against the record.
C27_UnevaluableNeverMatches ==
    reply.op \in RuleOps
    => \A n \in 1..Len(reply.runs) : \A r \in 1..Len(reply.rules) :
          only_unevaluable(reply.rules[r], reply.runs[n].file_info)
          => \A i \in 1..Len(reply.runs[n].executed) : reply.runs[n].executed[i].rule # r

\* the part of C27 that the code keeps: the condition placed directly
C27_DirectUnevaluableNeverMatches ==
    reply.op \in RuleOps
    => \A n \in 1..Len(reply.runs) : \A r \in 1..Len(reply.rules) :
          (/\ only_unevaluable(reply.rules[r], reply.runs[n].file_info)
           /\ "not" \notin DOMAIN reply.rules[r].when)
          => \A i \in 1..Len(reply.runs[n].executed) : reply.runs[n].executed[i].rule # r

C28_NeverAvailableAgain ==
    [][\A k \in 1..Len(assets) :
          ~assets[k].is_available
          => /\ k <= Len(assets')
             /\ ~assets'[k].is_available
             /\ assets'[k].last_seen = assets[k].last_seen]_vars

\* an unavailable Asset whose file is there again has been scanned again
C28_Rediscovered ==
    \E k \in 1..Len(assets) :
        /\ ~assets[k].is_available
        /\ is_file(fs, assets[k].full_path)
        /\ sc["s1"].pc = "idle" /\ sc["s1"].ret.success
        /\ \E i \in 1..Len(sc["s1"].results) :
              sc["s1"].results[i].file_path = assets[k].full_path

\* C29: in every committed catalog at most one available Asset has a
\* given full_path.
C29_OneAvailablePerPath ==
    \A i, j \in 1..Len(assets) :
        (/\ assets[i].is_available /\ assets[j].is_available
         /\ assets[i].full_path = assets[j].full_path)
        => i = j

settled == {"completed", "failed"}

\* C30: every scan job start_scan has created is eventually completed or
\* failed.
C30_EveryJobSettles ==
    \A j \in 1..MaxJobs :
        (Len(jobs) >= j) ~> (Len(jobs) >= j /\ jobs[j].status \in settled)

\* C30 as a property of the states: a job whose task has returned is
\* completed or failed
C30_ReturnedTaskSettled ==
    \A j \in 1..Len(jobs) : jobs[j].pc = "done" => jobs[j].status \in settled

\* the part of C30 that the code keeps: a status changes only from pending
\* to running, from running to completed, or by fail_job
C30_GuardedTransitions ==
    [][\A j \in 1..Len(jobs) :
          jobs'[j].status # jobs[j].status
          => \/ jobs[j].status = "pending" /\ jobs'[j].status = "running"
             \/ jobs[j].status = "running" /\ jobs'[j].status = "completed"
             \/ jobs'[j].status \in {"failed", "pending"}]_vars

====
